---- MODULE Spec2Model ----
(***************************************************************************)
(* ncore-stats (main.go): a background fetcher that scrapes one profile    *)
(* page per tracked user every 24 hours and appends the extracted values   *)
(* to the profile_history table, two HTTP read handlers over that table,   *)
(* and the administrative --add-user command.                              *)
(*                                                                         *)
(* Text is modelled as a sequence of one-character strings, so that the    *)
(* string functions of the extraction are computed character by character. *)
(* A timestamp is a natural number; the wall clock read by time.Now() is   *)
(* not monotonic, so each reading is any value of 1..MaxTime.              *)
(***************************************************************************)
EXTENDS Integers, Sequences, FiniteSets, TLC

VARIABLES
    users,       \* table users, in rowid order
    history,     \* table profile_history, in rowid order
    pc,          \* position of the goroutine running profileFetcherLoop
    cycleUsers,  \* fetchAndLogAllProfiles: the slice returned by getUsers
    idx,         \* fetchAndLogAllProfiles: position of the range loop (1-based)
    profile,     \* fetchAndLogAllProfiles: the *ProfileData returned by fetchProfile
    cycleLog,    \* the per-user log lines written since the cycle started
    cycleBase,   \* number of profile_history rows when the cycle started
    tickerOn,    \* the ticker of profileFetcherLoop has been created
    tickPending, \* a tick is waiting in ticker.C
    ctxDone,     \* the context given to profileFetcherLoop is cancelled
    mainPc,      \* position of the main goroutine
    config,      \* the Configuration of the process: Ncore.Nick and Ncore.Pass
    dbOpen,      \* initializeDatabase has returned the handle of the store
    reply        \* what the step just taken answered to its caller

vars == << users, history, pc, cycleUsers, idx, profile, cycleLog, cycleBase,
           tickerOn, tickPending, ctxDone, mainPc, config, dbOpen, reply >>

(***************************************************************************)
(* Bounds of the model.                                                    *)
(***************************************************************************)
\* profile_history holds at most MaxRows rows: a further insert fails.
MaxRows == 2
\* time.Now() reads a value of 1..MaxTime.
MaxTime == 2

\* Display names and profile ids the administrator may supply.
Names == {"alice", "bob"}
ProfileIDs == {"69"}

(***************************************************************************)
(* Text helpers.                                                           *)
(***************************************************************************)
Digits == {"0", "1", "2", "3", "4", "5", "6", "7", "8", "9"}

DigitVal(c) ==
    CASE c = "0" -> 0 [] c = "1" -> 1 [] c = "2" -> 2 [] c = "3" -> 3
      [] c = "4" -> 4 [] c = "5" -> 5 [] c = "6" -> 6 [] c = "7" -> 7
      [] c = "8" -> 8 [] c = "9" -> 9

\* strings.TrimSuffix(s, suffix)
TrimSuffix(s, suffix) ==
    IF Len(s) >= Len(suffix)
       /\ SubSeq(s, Len(s) - Len(suffix) + 1, Len(s)) = suffix
    THEN SubSeq(s, 1, Len(s) - Len(suffix))
    ELSE s

\* strings.ReplaceAll(s, old, "") for a one-character old
RemoveAll(s, old) == SelectSeq(s, LAMBDA c : c # old)

RECURSIVE DecimalValue(_)
DecimalValue(s) ==
    IF s = << >> THEN 0
    ELSE 10 * DecimalValue(SubSeq(s, 1, Len(s) - 1)) + DigitVal(s[Len(s)])

\* The digits of a numeral without its leading zeros.
RECURSIVE StripZeros(_)
StripZeros(s) ==
    IF s # << >> /\ Head(s) = "0" THEN StripZeros(Tail(s)) ELSE s

\* The leading run of digits of s.
RECURSIVE LeadingDigits(_)
LeadingDigits(s) ==
    IF s # << >> /\ Head(s) \in Digits
    THEN << Head(s) >> \o LeadingDigits(Tail(s))
    ELSE << >>

\* a >= b for two numerals without leading zeros (the empty one is zero).
RECURSIVE NumeralGE(_, _)
NumeralGE(a, b) ==
    IF Len(a) # Len(b) THEN Len(a) > Len(b)
    ELSE IF a = << >> THEN TRUE
    ELSE IF Head(a) # Head(b) THEN DigitVal(Head(a)) > DigitVal(Head(b))
    ELSE NumeralGE(Tail(a), Tail(b))

\* 1<<64 and 1<<63, the bounds strconv.ParseUint and strconv.ParseInt
\* compare with, and 1<<63 - 1, as numerals.
TwoTo64 ==
    << "1", "8", "4", "4", "6", "7", "4", "4", "0", "7",
       "3", "7", "0", "9", "5", "5", "1", "6", "1", "6" >>
TwoTo63 ==
    << "9", "2", "2", "3", "3", "7", "2", "0", "3", "6",
       "8", "5", "4", "7", "7", "5", "8", "0", "8" >>
TwoTo63Less1 ==
    << "9", "2", "2", "3", "3", "7", "2", "0", "3", "6",
       "8", "5", "4", "7", "7", "5", "8", "0", "7" >>

\* The integers of this model are narrower than the int of the program.
\* A value of at most 9 digits is the integer itself. MaxInt64 stands for
\* math.MaxInt64 (1<<63 - 1) and MinInt64 for math.MinInt64; both lie
\* outside the values of at most 9 digits. Any other value of the range of
\* int is written as its numeral, with "-" in front when it is negative.
MaxInt64 == 2147483647
MinInt64 == 0 - MaxInt64 - 1

\* The int of the numeral sig (no leading zeros, within the range of int).
IntValue(sig, neg) ==
    IF Len(sig) <= 9
    THEN IF neg THEN 0 - DecimalValue(sig) ELSE DecimalValue(sig)
    ELSE IF ~neg /\ sig = TwoTo63Less1 THEN MaxInt64
    ELSE IF neg /\ sig = TwoTo63 THEN MinInt64
    ELSE IF neg THEN << "-" >> \o sig ELSE sig

\* strconv.Atoi(s). After an optional sign the characters are read from
\* the left: a character that is not a digit ends the conversion with n 0
\* and err "syntax", and a digit with which the number read so far reaches
\* 1<<64 ends it with the nearest bound of int and err "range", whichever
\* comes first. A numeral read to its end is out of range when it is at
\* least 1<<63 (more than 1<<63 after "-").
Atoi(s) ==
    LET neg == s # << >> /\ s[1] = "-"
        body == IF s # << >> /\ s[1] \in {"-", "+"} THEN Tail(s) ELSE s
        run == LeadingDigits(body)
        sig == StripZeros(run)
        bound == [n |-> IF neg THEN MinInt64 ELSE MaxInt64, err |-> "range"]
    IN  IF body = << >> THEN [n |-> 0, err |-> "syntax"]
        ELSE IF NumeralGE(sig, TwoTo64) THEN bound
        ELSE IF run # body THEN [n |-> 0, err |-> "syntax"]
        ELSE IF ~neg /\ NumeralGE(sig, TwoTo63) THEN bound
        ELSE IF neg /\ NumeralGE(sig, TwoTo63) /\ sig # TwoTo63 THEN bound
        ELSE [n |-> IntValue(sig, neg), err |-> "nil"]

\* regexp \((\d+)\) at position i of s: the end of the digit run when the
\* run is not empty and is closed by ")", else 0.
RECURSIVE DigitRunEnd(_, _)
DigitRunEnd(s, j) ==
    IF j + 1 <= Len(s) /\ s[j + 1] \in Digits THEN DigitRunEnd(s, j + 1) ELSE j

MatchAt(s, i) ==
    IF s[i] # "(" THEN 0
    ELSE LET e == DigitRunEnd(s, i)
         IN  IF e > i /\ e + 1 <= Len(s) /\ s[e + 1] = ")" THEN e ELSE 0

\* A search that returns the group of the rightmost match.
FindLastSubmatch(s) ==
    LET hits == {i \in 1..Len(s) : MatchAt(s, i) # 0}
    IN  IF hits = {} THEN << >>
        ELSE LET i == CHOOSE k \in hits : \A m \in hits : k >= m
             IN  << SubSeq(s, i + 1, MatchAt(s, i)) >>

\* regexp.FindStringSubmatch: the first group of the leftmost match, as a
\* sequence holding the group, or the empty sequence when nothing matches.
FindStringSubmatch(s) ==
    LET hits == {i \in 1..Len(s) : MatchAt(s, i) # 0}
    IN  IF hits = {} THEN << >>
        ELSE LET i == CHOOSE k \in hits : \A m \in hits : k <= m
             IN  << SubSeq(s, i + 1, MatchAt(s, i)) >>

\* fmt.Sscanf(tok, "%d", &x) for a token of digits: x becomes the number
\* when it is in the range of int (strconv.ParseInt of 64 bits succeeds);
\* when it is not, the scan fails and x keeps the value it had (old).
Sscanf(tok, old) ==
    LET sig == StripZeros(tok)
    IN  IF NumeralGE(sig, TwoTo63) THEN old ELSE IntValue(sig, FALSE)

(***************************************************************************)
(* fetchProfile: the request and the extraction.                           *)
(***************************************************************************)
\* The labels of the switch (written without their accents):
\* "Helyezes:", "Feltoltes:", "Aktualis feltoltes:", "Aktualis letoltes:",
\* "Pontok szama:".
LabelRank == "Helyezes:"
LabelUpload == "Feltoltes:"
LabelCurrentUpload == "Aktualis feltoltes:"
LabelCurrentDownload == "Aktualis letoltes:"
LabelPoints == "Pontok szama:"

\* &ProfileData{Owner: user.DisplayName, Timestamp: time.Now()}
NewProfile(owner, now) ==
    [Owner |-> owner, Timestamp |-> now, Rank |-> 0, Upload |-> << >>,
     CurrentUpload |-> << >>, CurrentDownload |-> << >>, Points |-> 0,
     SeedingCount |-> 0]

\* The value of the profile variable while no profile is held.
NoProfile == NewProfile("", 0)

\* A switch with a default case that keeps the value of a label it does
\* not know as the upload.
ApplyLabelWithDefault(p, label, value) ==
    CASE label = LabelRank ->
           [p EXCEPT !.Rank = Atoi(TrimSuffix(value, << "." >>)).n]
      [] label = LabelUpload -> [p EXCEPT !.Upload = value]
      [] label = LabelCurrentUpload -> [p EXCEPT !.CurrentUpload = value]
      [] label = LabelCurrentDownload -> [p EXCEPT !.CurrentDownload = value]
      [] label = LabelPoints ->
           [p EXCEPT !.Points = Atoi(RemoveAll(value, " ")).n]
      [] OTHER -> [p EXCEPT !.Upload = value]

\* One call of the callback given to
\* doc.Find(".userbox_tartalom_mini .profil_jobb_elso2").Each
ApplyLabel(p, label, value) ==
    CASE label = LabelRank ->
           [p EXCEPT !.Rank = Atoi(TrimSuffix(value, << "." >>)).n]
      [] label = LabelUpload -> [p EXCEPT !.Upload = value]
      [] label = LabelCurrentUpload -> [p EXCEPT !.CurrentUpload = value]
      [] label = LabelCurrentDownload -> [p EXCEPT !.CurrentDownload = value]
      [] label = LabelPoints ->
           [p EXCEPT !.Points = Atoi(RemoveAll(value, " ")).n]
      [] OTHER -> p

RECURSIVE EachLabel(_, _)
EachLabel(p, pairs) ==
    IF pairs = << >> THEN p
    ELSE EachLabel(ApplyLabel(p, Head(pairs).label, Head(pairs).value), Tail(pairs))

\* One call of the callback given to doc.Find(".lista_mini_fej").Each
ApplySeeding(p, text) ==
    LET matches == FindStringSubmatch(text)
    IN  IF Len(matches) > 0
        THEN [p EXCEPT !.SeedingCount = Sscanf(matches[1], p.SeedingCount)]
        ELSE p

RECURSIVE EachSeeding(_, _)
EachSeeding(p, heads) ==
    IF heads = << >> THEN p
    ELSE EachSeeding(ApplySeeding(p, Head(heads)), Tail(heads))

\* An extraction that fills the profile stored last instead of a new
\* ProfileData: a field the page does not set keeps the stored value.
ExtractOverStored(doc, owner, now) ==
    LET start == IF history = << >> THEN NewProfile(owner, now)
                 ELSE LET ph == history[Len(history)]
                      IN  [Owner |-> owner, Timestamp |-> now, Rank |-> ph.rank,
                           Upload |-> ph.upload,
                           CurrentUpload |-> ph.current_upload,
                           CurrentDownload |-> ph.current_download,
                           Points |-> ph.points,
                           SeedingCount |-> ph.seeding_count]
    IN  EachSeeding(EachLabel(start, doc.pairs), doc.heads)

\* The extraction of fetchProfile from a parsed document.
Extract(doc, owner, now) ==
    EachSeeding(EachLabel(NewProfile(owner, now), doc.pairs), doc.heads)

(***************************************************************************)
(* The pages the remote site may answer with, and its answers.             *)
(***************************************************************************)
EmptyDoc == [pairs |-> << >>, heads |-> << >>]

\* A page with the five labels, a label the switch does not know, and the
\* seeding header.
DocA ==
    [pairs |-> << [label |-> LabelRank, value |-> << "5", "." >>],
                  [label |-> LabelUpload, value |-> << "1", "T" >>],
                  [label |-> "Regisztralt:", value |-> << "x" >>],
                  [label |-> LabelCurrentUpload, value |-> << "2", "G" >>],
                  [label |-> LabelCurrentDownload, value |-> << "3", "G" >>],
                  [label |-> LabelPoints, value |-> << "1", " ", "0", "0", "0" >>] >>,
     heads |-> << << "S", " ", "(", "1", "2", ")" >> >>]

Docs == {DocA}

StatusOK == 200

\* neterr: s.client.Do failed; status: resp.StatusCode; readerr:
\* goquery.NewDocumentFromReader failed; doc: the parsed document.
Responses ==
    {[neterr |-> TRUE, status |-> 0, readerr |-> FALSE, doc |-> EmptyDoc],
     [neterr |-> FALSE, status |-> 404, readerr |-> FALSE, doc |-> EmptyDoc],
     [neterr |-> FALSE, status |-> StatusOK, readerr |-> TRUE, doc |-> EmptyDoc]}
    \cup {[neterr |-> FALSE, status |-> StatusOK, readerr |-> FALSE, doc |-> d] : d \in Docs}

\* The error value returned by fetchProfile.
NilError == [what |-> "nil", code |-> 0]

\* The profile ids of the model that hold a control byte (a line feed):
\* url.Parse, called by http.NewRequest, rejects the URL made with them.
CTLProfileIDs == {"6\n9"}

\* fetchProfile(user), given the answer of the remote site and the clock.
\* When http.NewRequest fails nothing is sent and the answer plays no part.
FetchProfile(user, resp, now) ==
    IF user.ProfileID \in CTLProfileIDs
    THEN [profile |-> NoProfile, err |-> [what |-> "error creating request", code |-> 0]]
    ELSE IF resp.neterr
    THEN [profile |-> NoProfile, err |-> [what |-> "error performing request", code |-> 0]]
    ELSE IF resp.status # StatusOK
    THEN [profile |-> NoProfile,
          err |-> [what |-> "received non-200 status code", code |-> resp.status]]
    ELSE IF resp.readerr
    THEN [profile |-> NoProfile, err |-> [what |-> "error parsing profile document", code |-> 0]]
    ELSE [profile |-> Extract(resp.doc, user.DisplayName, now), err |-> NilError]

(***************************************************************************)
(* The store: the two tables and the statements run against them.          *)
(***************************************************************************)
\* A users table whose display_name column is not UNIQUE: no insert finds
\* a conflicting row.
NoUniqueConstraint(usrs, displayName) == FALSE

\* INSERT INTO users(display_name, profile_id): display_name is UNIQUE, so
\* the insert of a name already present fails and changes nothing; the id
\* is assigned by AUTOINCREMENT.
UserExists(usrs, displayName) ==
    \E i \in 1..Len(usrs) : usrs[i].DisplayName = displayName

InsertUser(usrs, displayName, profileID) ==
    Append(usrs, [ID |-> Len(usrs) + 1, DisplayName |-> displayName,
                  ProfileID |-> profileID])

\* SELECT id, display_name, profile_id FROM users
GetUsers(usrs) == usrs

\* An insert that replaces the row the user already has (INSERT OR REPLACE
\* keyed by user_id).
InsertOrReplaceHistory(hist, p, userID) ==
    LET row == [id |-> Len(hist) + 1, user_id |-> userID,
                timestamp |-> p.Timestamp, rank |-> p.Rank, upload |-> p.Upload,
                current_upload |-> p.CurrentUpload,
                current_download |-> p.CurrentDownload, points |-> p.Points,
                seeding_count |-> p.SeedingCount]
    IN  IF \E k \in 1..Len(hist) : hist[k].user_id = userID
        THEN [k \in 1..Len(hist) |->
                 IF hist[k].user_id = userID THEN [row EXCEPT !.id = k] ELSE hist[k]]
        ELSE Append(hist, row)

\* An insert that stores the zero-based position of the user in the list
\* of the cycle instead of user.ID.
InsertHistoryByIndex(hist, p, userID) ==
    Append(hist, [id |-> Len(hist) + 1, user_id |-> userID - 1,
                  timestamp |-> p.Timestamp, rank |-> p.Rank, upload |-> p.Upload,
                  current_upload |-> p.CurrentUpload,
                  current_download |-> p.CurrentDownload, points |-> p.Points,
                  seeding_count |-> p.SeedingCount])

\* INSERT INTO profile_history(user_id, timestamp, rank, upload,
\* current_upload, current_download, points, seeding_count)
InsertHistory(hist, p, userID) ==
    Append(hist, [id |-> Len(hist) + 1, user_id |-> userID,
                  timestamp |-> p.Timestamp, rank |-> p.Rank, upload |-> p.Upload,
                  current_upload |-> p.CurrentUpload,
                  current_download |-> p.CurrentDownload, points |-> p.Points,
                  seeding_count |-> p.SeedingCount])

\* A Scan whose destinations for current_upload and current_download are
\* exchanged.
ScanRowSwapped(u, ph) ==
    [Owner |-> u.DisplayName, Timestamp |-> ph.timestamp, Rank |-> ph.rank,
     Upload |-> ph.upload, CurrentUpload |-> ph.current_download,
     CurrentDownload |-> ph.current_upload, Points |-> ph.points,
     SeedingCount |-> ph.seeding_count]

\* rows.Scan of one joined row (u.display_name, ph.timestamp, ph.rank, ...)
ScanRow(u, ph) ==
    [Owner |-> u.DisplayName, Timestamp |-> ph.timestamp, Rank |-> ph.rank,
     Upload |-> ph.upload, CurrentUpload |-> ph.current_upload,
     CurrentDownload |-> ph.current_download, Points |-> ph.points,
     SeedingCount |-> ph.seeding_count]

\* JOIN users u ON ph.user_id = u.id: the joined rows of a sequence of
\* profile_history rows, in the order of that sequence.
RECURSIVE JoinUsers(_, _)
JoinUsers(rows, usrs) ==
    IF rows = << >> THEN << >>
    ELSE LET ph == Head(rows)
             us == SelectSeq(usrs, LAMBDA u : u.ID = ph.user_id)
         IN  [i \in 1..Len(us) |-> ScanRow(us[i], ph)] \o JoinUsers(Tail(rows), usrs)

\* The aggregate written MIN(timestamp).
MinTs(hist, userID) ==
    LET ts == {hist[i].timestamp : i \in {k \in 1..Len(hist) : hist[k].user_id = userID}}
    IN  CHOOSE t \in ts : \A o \in ts : t <= o

\* SELECT user_id, MAX(timestamp) as max_ts FROM profile_history GROUP BY
\* user_id: max_ts of one user_id that has rows.
MaxTs(hist, userID) ==
    LET ts == {hist[i].timestamp : i \in {k \in 1..Len(hist) : hist[k].user_id = userID}}
    IN  CHOOSE t \in ts : \A o \in ts : o <= t

\* ... INNER JOIN (...) latest ON ph.user_id = latest.user_id AND
\* ph.timestamp = latest.max_ts
LatestRows(hist) ==
    SelectSeq(hist, LAMBDA ph : ph.timestamp = MaxTs(hist, ph.user_id))

\* The query written FROM users u LEFT JOIN profile_history: an account
\* without rows yields one row whose history columns are empty.
LatestFromUsersLeftJoin(hist, usrs, plan) ==
    LET none == SelectSeq(usrs, LAMBDA u :
                    \A k \in 1..Len(hist) : hist[k].user_id # u.ID)
    IN  JoinUsers(LatestRows(hist), usrs) \o
        [i \in 1..Len(none) |-> NewProfile(none[i].DisplayName, 0)]

\* The statement has no ORDER BY, so the order of its rows is that of the
\* plan the SQLite of the build chooses for the join: the subquery is
\* materialized and scanned first, or profile_history is scanned first.
QueryPlans == {"latest first", "history first"}

\* The order of the rows under the plan that scans the subquery first:
\* GROUP BY user_id yields the groups by ascending user_id, and each group
\* is followed by the rows of profile_history that match it, in the order
\* of their insertion.
RECURSIVE InsertByUserID(_, _)
InsertByUserID(sorted, r) ==
    IF sorted = << >> THEN << r >>
    ELSE IF sorted[Len(sorted)].user_id <= r.user_id THEN Append(sorted, r)
    ELSE Append(InsertByUserID(SubSeq(sorted, 1, Len(sorted) - 1), r),
                sorted[Len(sorted)])

RECURSIVE GroupOrder(_)
GroupOrder(rows) ==
    IF rows = << >> THEN << >>
    ELSE InsertByUserID(GroupOrder(SubSeq(rows, 1, Len(rows) - 1)),
                        rows[Len(rows)])

\* The query of profilesHandler: under the plan that scans profile_history
\* first the rows come in the order of their insertion.
LatestPerAccount(hist, usrs, plan) ==
    IF plan = "latest first"
    THEN JoinUsers(GroupOrder(LatestRows(hist)), usrs)
    ELSE JoinUsers(LatestRows(hist), usrs)

\* The query without its ORDER BY clause.
NoOrderBy(rows) == rows

\* ORDER BY ph.timestamp ASC: rows of equal timestamp keep their order.
RECURSIVE InsertByTimestamp(_, _)
InsertByTimestamp(sorted, r) ==
    IF sorted = << >> THEN << r >>
    ELSE IF sorted[Len(sorted)].Timestamp <= r.Timestamp THEN Append(sorted, r)
    ELSE Append(InsertByTimestamp(SubSeq(sorted, 1, Len(sorted) - 1), r),
                sorted[Len(sorted)])

RECURSIVE OrderByTimestamp(_)
OrderByTimestamp(rows) ==
    IF rows = << >> THEN << >>
    ELSE InsertByTimestamp(OrderByTimestamp(SubSeq(rows, 1, Len(rows) - 1)),
                           rows[Len(rows)])

\* ... WHERE u.display_name = ?
WhereOwner(rows, owner) == SelectSeq(rows, LAMBDA r : r.Owner = owner)

\* The query of historyHandler.
HistoryFor(hist, usrs, owner) ==
    OrderByTimestamp(WhereOwner(JoinUsers(hist, usrs), owner))

(***************************************************************************)
(* What a step answers to its caller.                                      *)
(***************************************************************************)
StatusBadRequest == 400
StatusInternalServerError == 500

NoReply ==
    [op |-> "none", owner |-> "", status |-> 0, null |-> FALSE, items |-> << >>,
     rowsErr |-> FALSE]

\* The loop for rows.Next() of a handler or of getUsers: it ends when the
\* result is exhausted or when stepping fails, here after cut rows.
Stepped(rows, cut) == IF cut < Len(rows) THEN SubSeq(rows, 1, cut) ELSE rows

\* The numbers of rows after which such a loop can end: any number up to
\* all of them when the query ran (ran is false when the query failed or
\* was not made, and then there is no loop).
Cuts(ran, rows) == IF ran THEN 0..Len(rows) ELSE {0}

\* json.NewEncoder(w).Encode of a []ProfileData: a slice that was never
\* appended to is nil and is written as null. rowsErr is what rows.Err()
\* holds after the loop, which no handler reads.
JsonReply(op, owner, rows) ==
    [op |-> op, owner |-> owner, status |-> StatusOK, null |-> (rows = << >>),
     items |-> rows, rowsErr |-> FALSE]

\* The answer of a handler whose loop ended after cut rows of the result.
SteppedReply(op, owner, rows, cut) ==
    [JsonReply(op, owner, Stepped(rows, cut)) EXCEPT !.rowsErr = cut < Len(rows)]

\* http.Error(w, ..., code)
ErrorReply(op, owner, code) ==
    [op |-> op, owner |-> owner, status |-> code, null |-> FALSE, items |-> << >>,
     rowsErr |-> FALSE]

(***************************************************************************)
(* Configuration and command line.                                         *)
(***************************************************************************)
\* os.Getenv of NICK or PASS: "" when the variable is unset or empty.
EnvValues == {"", "secret"}

\* cfg := &Configuration{}
NoConfig == [Nick |-> "", Pass |-> ""]

\* A check of the required variables that looks at NICK only.
MissingNickOnly(nick, pass) == nick = ""

\* loadConfiguration, the loop over the map required: a value that is ""
\* makes it return an error.
MissingRequired(nick, pass) == nick = "" \/ pass = ""

\* The value of --add-user as a sequence of pieces, each a comma or a
\* maximal run of other characters; strings.Split(value, ","): the parts
\* between the commas, one more than there are commas.
RECURSIVE Split(_)
Split(value) ==
    IF value = << >> THEN << "" >>
    ELSE IF Head(value) = "," THEN << "" >> \o Split(Tail(value))
    ELSE LET rest == Split(Tail(value))
         IN  << Head(value) \o Head(rest) >> \o Tail(rest)

\* A test of the number of parts that accepts more than two.
AtLeastTwoParts(parts) == Len(parts) >= 2

\* handleFlags: len(parts) != 2 is fatal.
TwoParts(parts) == Len(parts) = 2

\* The values of --add-user: << >> is the flag not given (its default "").
FlagInputs ==
    { << >>,
      << "alice", ",", "69" >>, << "bob", ",", "69" >>,
      << "alice" >>, << "alice", ",", "69", ",", "69" >>,
      << ",", "69" >>, << "alice", "," >> }

(***************************************************************************)
(* Initial state: the process has been started on an empty store file and  *)
(* main has not run yet.                                                   *)
(***************************************************************************)
Init ==
    /\ users = << >>
    /\ history = << >>
    /\ pc = "off"
    /\ cycleUsers = << >>
    /\ idx = 0
    /\ profile = NoProfile
    /\ cycleLog = << >>
    /\ cycleBase = 0
    /\ tickerOn = FALSE
    /\ tickPending = FALSE
    /\ ctxDone = FALSE
    /\ mainPc = "start"
    /\ config = NoConfig
    /\ dbOpen = FALSE
    /\ reply = NoReply

\* The process runs until main returns or logrus.Fatal ends it.
Alive == mainPc \notin {"exited", "fatal"}

(***************************************************************************)
(* main up to the start of the fetcher and the server.                     *)
(***************************************************************************)
\* initializeApplication: loadConfiguration reads NICK and PASS; its error
\* is fatal, and the Configuration is returned only without error.
LoadConfiguration(nick, pass) ==
    /\ mainPc = "start"
    /\ IF MissingRequired(nick, pass)
       THEN /\ mainPc' = "fatal"
            /\ config' = config
       ELSE /\ mainPc' = "configured"
            /\ config' = [Nick |-> nick, Pass |-> pass]
    /\ reply' = NoReply
    /\ UNCHANGED << dbOpen, users, history, pc, cycleUsers, idx, profile, cycleLog,
                    cycleBase, tickerOn, tickPending, ctxDone >>

\* An initialization that drops the two tables and creates them anew.
InitializeDatabaseAnew(dbOk) ==
    /\ mainPc = "configured"
    /\ IF dbOk
       THEN /\ mainPc' = "flags"
            /\ dbOpen' = TRUE
            /\ users' = << >>
            /\ history' = << >>
       ELSE /\ mainPc' = "fatal"
            /\ dbOpen' = FALSE
            /\ users' = users
            /\ history' = history
    /\ reply' = NoReply
    /\ UNCHANGED << config, pc, cycleUsers, idx, profile, cycleLog,
                    cycleBase, tickerOn, tickPending, ctxDone >>

\* initializeDatabase: MkdirAll, sql.Open and the two CREATE TABLE IF NOT
\* EXISTS, which leave existing tables as they are; an error is fatal.
InitializeDatabase(dbOk) ==
    /\ mainPc = "configured"
    /\ IF dbOk
       THEN /\ mainPc' = "flags"
            /\ dbOpen' = TRUE
       ELSE /\ mainPc' = "fatal"
            /\ dbOpen' = FALSE
    /\ reply' = NoReply
    /\ UNCHANGED << config, users, history, pc, cycleUsers, idx, profile, cycleLog,
                    cycleBase, tickerOn, tickPending, ctxDone >>

\* handleFlags and the rest of main. With --add-user the value is split
\* and addUser called, and main returns (a value of other than two parts,
\* or a failed insert, is fatal: the name is taken, or with dbOk false
\* Prepare or Exec fails for another reason); without it main starts the
\* goroutine of profileFetcherLoop and the server and waits for a signal.
HandleFlags(value, dbOk) ==
    /\ mainPc = "flags"
    /\ IF value = << >>
       THEN /\ pc' = "boot"
            /\ mainPc' = "serving"
            /\ users' = users
            /\ reply' = NoReply
       ELSE LET parts == Split(value)
            IN  /\ pc' = pc
                /\ IF ~TwoParts(parts)
                   THEN /\ mainPc' = "fatal"
                        /\ users' = users
                        /\ reply' = [NoReply EXCEPT !.op = "add-user", !.status = 1]
                   ELSE IF ~dbOk \/ UserExists(users, parts[1])
                   THEN /\ mainPc' = "fatal"
                        /\ users' = users
                        /\ reply' = [NoReply EXCEPT !.op = "add-user",
                                                    !.owner = parts[1], !.status = 1]
                   ELSE /\ mainPc' = "exited"
                        /\ users' = InsertUser(users, parts[1], parts[2])
                        /\ reply' = [NoReply EXCEPT !.op = "add-user",
                                                    !.owner = parts[1]]
    /\ UNCHANGED << config, dbOpen, history, cycleUsers, idx, profile, cycleLog,
                    cycleBase, tickerOn, tickPending, ctxDone >>

(***************************************************************************)
(* The administrative command, run as a process of its own on the store.   *)
(***************************************************************************)
\* An insert that the range loop of a running cycle sees: the new account
\* is appended to the list the cycle iterates over.
AddUserSeenByCycle(displayName, profileID, dbOk) ==
    /\ IF ~dbOk \/ UserExists(users, displayName)
       THEN /\ users' = users
            /\ cycleUsers' = cycleUsers
            /\ reply' = [NoReply EXCEPT !.op = "add-user", !.owner = displayName,
                                        !.status = 1]
       ELSE /\ users' = InsertUser(users, displayName, profileID)
            /\ cycleUsers' = IF pc \in {"fetch", "inflight", "log", "sleep"}
                             THEN GetUsers(InsertUser(users, displayName, profileID))
                             ELSE cycleUsers
            /\ reply' = [NoReply EXCEPT !.op = "add-user", !.owner = displayName]
    /\ UNCHANGED << config, dbOpen, history, pc, idx, profile, cycleLog, cycleBase,
                    tickerOn, tickPending, ctxDone, mainPc >>

\* handleFlags with --add-user "displayName,profileID", then addUser: a
\* failed insert ends that process with logrus.Fatalf (exit code 1). With
\* dbOk false the process ends so without an insert: Prepare or Exec fails
\* for a reason other than the name being taken, or the process is fatal
\* before handleFlags (configuration, initializeDatabase).
AddUser(displayName, profileID, dbOk) ==
    /\ IF ~dbOk \/ UserExists(users, displayName)
       THEN /\ users' = users
            /\ reply' = [NoReply EXCEPT !.op = "add-user", !.owner = displayName,
                                        !.status = 1]
       ELSE /\ users' = InsertUser(users, displayName, profileID)
            /\ reply' = [NoReply EXCEPT !.op = "add-user", !.owner = displayName]
    /\ UNCHANGED << config, dbOpen, history, pc, cycleUsers, idx, profile, cycleLog, cycleBase,
                    tickerOn, tickPending, ctxDone, mainPc >>

(***************************************************************************)
(* The HTTP handlers.                                                      *)
(***************************************************************************)
\* profilesHandler: one query; a failed query or scan answers 500, and a
\* loop that ends early (rows.Err() is not read) answers with the rows
\* read. The server answers until server.Shutdown has closed it.
ProfilesHandler(dbOk, cut, plan) ==
    /\ mainPc \in {"serving", "shutdown"}
    /\ reply' = IF dbOk
                THEN SteppedReply("profiles", "",
                                  LatestPerAccount(history, users, plan), cut)
                ELSE ErrorReply("profiles", "", StatusInternalServerError)
    /\ UNCHANGED << config, dbOpen, users, history, pc, cycleUsers, idx, profile, cycleLog,
                    cycleBase, tickerOn, tickPending, ctxDone, mainPc >>

\* A historyHandler that looks the account up first and answers 404 when
\* there is none.
HistoryHandlerNotFound(owner, dbOk, cut) ==
    /\ mainPc \in {"serving", "shutdown"}
    /\ reply' = IF owner = ""
                THEN ErrorReply("history", owner, StatusBadRequest)
                ELSE IF ~dbOk
                THEN ErrorReply("history", owner, StatusInternalServerError)
                ELSE IF ~UserExists(users, owner)
                THEN ErrorReply("history", owner, 404)
                ELSE SteppedReply("history", owner, HistoryFor(history, users, owner), cut)
    /\ UNCHANGED << config, dbOpen, users, history, pc, cycleUsers, idx, profile, cycleLog,
                    cycleBase, tickerOn, tickPending, ctxDone, mainPc >>

\* A historyHandler without the check of the owner parameter: the query
\* runs for the empty name too.
HistoryHandlerNoOwnerCheck(owner, dbOk, cut) ==
    /\ mainPc \in {"serving", "shutdown"}
    /\ reply' = IF dbOk
                THEN SteppedReply("history", owner, HistoryFor(history, users, owner), cut)
                ELSE ErrorReply("history", owner, StatusInternalServerError)
    /\ UNCHANGED << config, dbOpen, users, history, pc, cycleUsers, idx, profile, cycleLog,
                    cycleBase, tickerOn, tickPending, ctxDone, mainPc >>

\* historyHandler: owner is the query parameter, "" when it is missing; the
\* query, the scans and the loop are as in profilesHandler.
HistoryHandler(owner, dbOk, cut) ==
    /\ mainPc \in {"serving", "shutdown"}
    /\ reply' = IF owner = ""
                THEN ErrorReply("history", owner, StatusBadRequest)
                ELSE IF dbOk
                THEN SteppedReply("history", owner, HistoryFor(history, users, owner), cut)
                ELSE ErrorReply("history", owner, StatusInternalServerError)
    /\ UNCHANGED << config, dbOpen, users, history, pc, cycleUsers, idx, profile, cycleLog,
                    cycleBase, tickerOn, tickPending, ctxDone, mainPc >>

(***************************************************************************)
(* fetchAndLogAllProfiles, step by step.                                   *)
(***************************************************************************)
\* A return of fetchAndLogAllProfiles after which the loop calls it again
\* at once, without a tick.
ReturnAndRunAgain ==
    /\ pc' = "tickTaken"
    /\ tickerOn' = TRUE
    /\ idx' = 0
    /\ cycleUsers' = << >>
    /\ cycleLog' = << >>
    /\ cycleBase' = 0

\* The return of fetchAndLogAllProfiles to profileFetcherLoop, which then
\* stands at its select; after the first cycle the ticker is created first.
ReturnToLoop ==
    /\ pc' = "select"
    /\ tickerOn' = TRUE
    /\ idx' = 0
    /\ cycleUsers' = << >>
    /\ cycleLog' = << >>
    /\ cycleBase' = 0

\* A range loop that steps over every second user of the list.
NextUserSkipOne ==
    IF idx + 1 < Len(cycleUsers)
    THEN /\ idx' = idx + 2
         /\ pc' = "fetch"
    ELSE /\ idx' = Len(cycleUsers)
         /\ pc' = "cycleEnd"

\* The continuation of the range loop after the user at position idx.
NextUser ==
    IF idx < Len(cycleUsers)
    THEN /\ idx' = idx + 1
         /\ pc' = "fetch"
    ELSE /\ idx' = idx
         /\ pc' = "cycleEnd"

\* The call of fetchAndLogAllProfiles (at startup, or for a tick) up to the
\* range loop: getUsers, and the two early returns. getUsers returns the
\* rows its loop has read with a nil error (rows.Err() is not read), so a
\* loop that ends after cut rows gives the cycle those rows only.
StartCycle(dbOk, cut) ==
    /\ Alive
    /\ pc \in {"boot", "tickTaken"}
    /\ IF dbOk /\ Len(Stepped(GetUsers(users), cut)) # 0
       THEN /\ cycleUsers' = Stepped(GetUsers(users), cut)
            /\ idx' = 1
            /\ pc' = "fetch"
            /\ cycleLog' = << >>
            /\ cycleBase' = Len(history)
            /\ UNCHANGED tickerOn
       ELSE ReturnToLoop
    /\ reply' = NoReply
    /\ UNCHANGED << config, dbOpen, users, history, profile, tickPending, ctxDone, mainPc >>

\* fetchProfile is called and, when http.NewRequest has made the request,
\* sends it: s.client.Do(req).
IssueFetch ==
    /\ Alive
    /\ pc = "fetch"
    /\ pc' = "inflight"
    /\ reply' = NoReply
    /\ UNCHANGED << config, dbOpen, users, history, cycleUsers, idx, profile, cycleLog, cycleBase,
                    tickerOn, tickPending, ctxDone, mainPc >>

\* The branch of the loop for a fetchProfile error, as a loop that stops at
\* the first error would take it.
OnFetchErrorBreak(user) ==
    /\ cycleLog' = Append(cycleLog, [name |-> user.DisplayName,
                                     what |-> "Error fetching profile"])
    /\ idx' = idx
    /\ pc' = "cycleEnd"
    /\ UNCHANGED profile

\* The same branch without its continue: the loop goes on to logToDB.
OnFetchErrorNoContinue(user) ==
    /\ cycleLog' = Append(cycleLog, [name |-> user.DisplayName,
                                     what |-> "Error fetching profile"])
    /\ idx' = idx
    /\ pc' = "log"
    /\ profile' = NewProfile(user.DisplayName, 0)

\* The same branch with a retry of the same user.
OnFetchErrorRetry(user) ==
    /\ cycleLog' = Append(cycleLog, [name |-> user.DisplayName,
                                     what |-> "Error fetching profile"])
    /\ idx' = idx
    /\ pc' = "fetch"
    /\ UNCHANGED profile

\* The same branch as a fatal error of the goroutine: it ends there.
OnFetchErrorEnd(user) ==
    /\ cycleLog' = Append(cycleLog, [name |-> user.DisplayName,
                                     what |-> "Error fetching profile"])
    /\ idx' = idx
    /\ pc' = "done"
    /\ UNCHANGED profile

\* The branch of the loop for a fetchProfile error: log it and continue
\* with the next user, without the pause.
OnFetchError(user) ==
    /\ cycleLog' = Append(cycleLog, [name |-> user.DisplayName,
                                     what |-> "Error fetching profile"])
    /\ NextUser
    /\ UNCHANGED profile

\* fetchProfile returns; on an error the loop logs it and continues.
FetchReturn(resp, now) ==
    /\ Alive
    /\ pc = "inflight"
    /\ LET user == cycleUsers[idx]
           got == FetchProfile(user, resp, now)
       IN  IF got.err # NilError
           THEN OnFetchError(user)
           ELSE /\ profile' = got.profile
                /\ pc' = "log"
                /\ UNCHANGED << idx, cycleLog >>
    /\ reply' = NoReply
    /\ UNCHANGED << config, dbOpen, users, history, cycleUsers, cycleBase, tickerOn, tickPending,
                    ctxDone, mainPc >>

\* A loop that passes the id of the first user of the list to every
\* logToDB.
LogToDBUnderFirst(dbOk) ==
    /\ Alive
    /\ pc = "log"
    /\ LET user == cycleUsers[1]
       IN  IF dbOk /\ Len(history) < MaxRows
           THEN /\ history' = InsertHistory(history, profile, user.ID)
                /\ cycleLog' = Append(cycleLog, [name |-> profile.Owner,
                                                 what |-> "logged successfully"])
           ELSE /\ history' = history
                /\ cycleLog' = Append(cycleLog, [name |-> user.DisplayName,
                                                 what |-> "Error logging profile to DB"])
    /\ pc' = "sleep"
    /\ profile' = NoProfile
    /\ reply' = NoReply
    /\ UNCHANGED << config, dbOpen, users, cycleUsers, idx, cycleBase, tickerOn, tickPending,
                    ctxDone, mainPc >>

\* logToDB(profile, user.ID): one insert, which may fail; a full store
\* fails every insert.
LogToDB(dbOk) ==
    /\ Alive
    /\ pc = "log"
    /\ LET user == cycleUsers[idx]
       IN  IF dbOk /\ Len(history) < MaxRows
           THEN /\ history' = InsertHistory(history, profile, user.ID)
                /\ cycleLog' = Append(cycleLog, [name |-> profile.Owner,
                                                 what |-> "logged successfully"])
           ELSE /\ history' = history
                /\ cycleLog' = Append(cycleLog, [name |-> user.DisplayName,
                                                 what |-> "Error logging profile to DB"])
    /\ pc' = "sleep"
    /\ profile' = NoProfile
    /\ reply' = NoReply
    /\ UNCHANGED << config, dbOpen, users, cycleUsers, idx, cycleBase, tickerOn, tickPending,
                    ctxDone, mainPc >>

\* time.Sleep(2 * time.Second), then the next user.
Sleep ==
    /\ Alive
    /\ pc = "sleep"
    /\ NextUser
    /\ reply' = NoReply
    /\ UNCHANGED << config, dbOpen, users, history, cycleUsers, profile, cycleLog, cycleBase,
                    tickerOn, tickPending, ctxDone, mainPc >>

\* An end of cycle that deletes the users whose fetch failed.
CycleCompletePrune ==
    /\ Alive
    /\ pc = "cycleEnd"
    /\ ReturnToLoop
    /\ reply' = NoReply
    /\ users' = SelectSeq(users, LAMBDA u :
                   \A j \in 1..Len(cycleLog) :
                       ~(cycleLog[j].name = u.DisplayName
                         /\ cycleLog[j].what = "Error fetching profile"))
    /\ UNCHANGED << config, dbOpen, history, profile, tickPending, ctxDone, mainPc >>

\* "Profile fetch cycle complete." and the return.
CycleComplete ==
    /\ Alive
    /\ pc = "cycleEnd"
    /\ ReturnToLoop
    /\ reply' = NoReply
    /\ UNCHANGED << config, dbOpen, users, history, profile, tickPending, ctxDone, mainPc >>

(***************************************************************************)
(* profileFetcherLoop: the select, the ticker and the cancellation.        *)
(***************************************************************************)
\* A select that looks at the ticker first.
ReadyTickFirst(tick, done) ==
    IF tick THEN {"tick"} ELSE IF done THEN {"done"} ELSE {}

\* The cases of the select that can proceed.
Ready(tick, done) ==
    (IF tick THEN {"tick"} ELSE {}) \cup (IF done THEN {"done"} ELSE {})

\* The select takes case <-ticker.C: one of the cases that can proceed.
SelectTick ==
    /\ Alive
    /\ pc = "select"
    /\ "tick" \in Ready(tickPending, ctxDone)
    /\ pc' = "tickTaken"
    /\ tickPending' = FALSE
    /\ reply' = NoReply
    /\ UNCHANGED << config, dbOpen, users, history, cycleUsers, idx, profile, cycleLog, cycleBase,
                    tickerOn, ctxDone, mainPc >>

\* The select takes case <-ctx.Done().
SelectDone ==
    /\ Alive
    /\ pc = "select"
    /\ "done" \in Ready(tickPending, ctxDone)
    /\ pc' = "doneTaken"
    /\ reply' = NoReply
    /\ UNCHANGED << config, dbOpen, users, history, cycleUsers, idx, profile, cycleLog, cycleBase,
                    tickerOn, tickPending, ctxDone, mainPc >>

\* No case can proceed: the goroutine blocks in the select.
SelectBlock ==
    /\ Alive
    /\ pc = "select"
    /\ Ready(tickPending, ctxDone) = {}
    /\ pc' = "wait"
    /\ reply' = NoReply
    /\ UNCHANGED << config, dbOpen, users, history, cycleUsers, idx, profile, cycleLog, cycleBase,
                    tickerOn, tickPending, ctxDone, mainPc >>

\* "Stopping background profile fetcher." and the return of the goroutine;
\* the deferred ticker.Stop() runs.
StopFetcher ==
    /\ Alive
    /\ pc = "doneTaken"
    /\ pc' = "done"
    /\ tickerOn' = FALSE
    /\ tickPending' = FALSE
    /\ reply' = NoReply
    /\ UNCHANGED << config, dbOpen, users, history, cycleUsers, idx, profile, cycleLog, cycleBase,
                    ctxDone, mainPc >>

\* A ticker whose tick starts a cycle wherever the fetcher stands.
TickStartsCycle ==
    /\ Alive
    /\ tickerOn
    /\ pc' = "tickTaken"
    /\ UNCHANGED tickPending
    /\ reply' = NoReply
    /\ UNCHANGED << config, dbOpen, users, history, cycleUsers, idx, profile, cycleLog, cycleBase,
                    tickerOn, ctxDone, mainPc >>

\* The ticker fires: a goroutine blocked in the select receives the tick;
\* otherwise the tick waits in the channel, which holds one tick.
Tick ==
    /\ Alive
    /\ tickerOn
    /\ IF pc = "wait"
       THEN /\ pc' = "tickTaken"
            /\ UNCHANGED tickPending
       ELSE /\ ~tickPending
            /\ tickPending' = TRUE
            /\ UNCHANGED pc
    /\ reply' = NoReply
    /\ UNCHANGED << config, dbOpen, users, history, cycleUsers, idx, profile, cycleLog, cycleBase,
                    tickerOn, ctxDone, mainPc >>

\* handleShutdown: the signal arrives and cancel() closes ctx.Done(), which
\* wakes a goroutine blocked in the select; server.Shutdown follows.
Shutdown ==
    /\ mainPc = "serving"
    /\ ctxDone' = TRUE
    /\ mainPc' = "shutdown"
    /\ pc' = IF pc = "wait" THEN "doneTaken" ELSE pc
    /\ reply' = NoReply
    /\ UNCHANGED << config, dbOpen, users, history, cycleUsers, idx, profile, cycleLog, cycleBase,
                    tickerOn, tickPending >>

\* A main that returns only after the goroutine of the fetcher has ended.
ExitAfterFetcher ==
    /\ mainPc = "shutdown"
    /\ pc = "done"
    /\ mainPc' = "exited"
    /\ reply' = NoReply
    /\ UNCHANGED << config, dbOpen, users, history, pc, cycleUsers, idx, profile, cycleLog,
                    cycleBase, tickerOn, tickPending, ctxDone >>

\* server.Shutdown returns, handleShutdown and main return: the process
\* ends, with every goroutine where it stands.
Exit ==
    /\ mainPc = "shutdown"
    /\ mainPc' = "exited"
    /\ reply' = NoReply
    /\ UNCHANGED << config, dbOpen, users, history, pc, cycleUsers, idx, profile, cycleLog,
                    cycleBase, tickerOn, tickPending, ctxDone >>

\* startServer: ListenAndServe returns an error other than ErrServerClosed
\* (the port is taken, say) and logrus.Fatalf ends the process with exit
\* code 1, with every goroutine where it stands. That can happen until
\* server.Shutdown closes the server, so also after cancel().
ServerFails ==
    /\ mainPc \in {"serving", "shutdown"}
    /\ mainPc' = "fatal"
    /\ reply' = NoReply
    /\ UNCHANGED << config, dbOpen, users, history, pc, cycleUsers, idx, profile, cycleLog,
                    cycleBase, tickerOn, tickPending, ctxDone >>

Fetcher ==
    \/ \E dbOk \in BOOLEAN :
          \E cut \in Cuts(dbOk, GetUsers(users)) : StartCycle(dbOk, cut)
    \/ IssueFetch
    \/ \E resp \in Responses, now \in 1..MaxTime : FetchReturn(resp, now)
    \/ \E dbOk \in BOOLEAN : LogToDB(dbOk)
    \/ Sleep
    \/ CycleComplete
    \/ SelectTick
    \/ SelectDone
    \/ SelectBlock
    \/ StopFetcher

Startup ==
    \/ \E nick \in EnvValues, pass \in EnvValues : LoadConfiguration(nick, pass)
    \/ \E dbOk \in BOOLEAN : InitializeDatabase(dbOk)
    \/ \E value \in FlagInputs, dbOk \in BOOLEAN : HandleFlags(value, dbOk)

Next ==
    \/ Startup
    \/ \E n \in Names, id \in ProfileIDs, dbOk \in BOOLEAN : AddUser(n, id, dbOk)
    \/ \E dbOk \in BOOLEAN, plan \in QueryPlans :
          \E cut \in Cuts(dbOk, LatestPerAccount(history, users, plan)) :
             ProfilesHandler(dbOk, cut, plan)
    \/ \E o \in Names \cup {""}, dbOk \in BOOLEAN :
          \E cut \in Cuts(dbOk /\ o # "", HistoryFor(history, users, o)) :
             HistoryHandler(o, dbOk, cut)
    \/ Fetcher
    \/ Tick
    \/ ServerFails
    \/ Shutdown
    \/ Exit

Spec == Init /\ [][Next]_vars

\* The steps of the program that write: all but the two read handlers,
\* which change nothing but their answer.
IngestNext ==
    \/ Startup
    \/ \E n \in Names, id \in ProfileIDs, dbOk \in BOOLEAN : AddUser(n, id, dbOk)
    \/ Fetcher
    \/ Tick
    \/ ServerFails
    \/ Shutdown
    \/ Exit

\* The program without its two read handlers.
IngestSpec == Init /\ [][IngestNext]_vars

(***************************************************************************)
(* The program run again and again on the same database file: with         *)
(* --add-user to add an account, without it to serve and fetch. The        *)
(* migration program of the repository runs on the same file.              *)
(***************************************************************************)
\* main is started again after the process has ended: the memory of the
\* process is new, the tables of the file at dbPath are as they were left.
Restart ==
    /\ mainPc \in {"exited", "fatal"}
    /\ mainPc' = "start"
    /\ pc' = "off"
    /\ cycleUsers' = << >>
    /\ idx' = 0
    /\ profile' = NoProfile
    /\ cycleLog' = << >>
    /\ cycleBase' = 0
    /\ tickerOn' = FALSE
    /\ tickPending' = FALSE
    /\ ctxDone' = FALSE
    /\ config' = NoConfig
    /\ dbOpen' = FALSE
    /\ reply' = NoReply
    /\ UNCHANGED << users, history >>

\* profiles.json of the migration program as the range over the decoded
\* map visits it (a Go map is visited in any order): {alice: 69}, and
\* {alice: 69, bob: 69} in both orders.
MigrationProfiles ==
    { << [name |-> "alice", id |-> "69"] >>,
      << [name |-> "alice", id |-> "69"], [name |-> "bob", id |-> "69"] >>,
      << [name |-> "bob", id |-> "69"], [name |-> "alice", id |-> "69"] >> }

\* data.json of the migration program: records of alice at 2 and bob at 1,
\* and records of alice at 1, of carol (who is in no profiles.json) at 1
\* and of alice at 2.
MigrationData ==
    { << NewProfile("alice", 2), NewProfile("bob", 1) >>,
      << NewProfile("alice", 1), NewProfile("carol", 1), NewProfile("alice", 2) >> }

\* The loop over profiles of the migration program: one INSERT INTO users
\* for each entry.
RECURSIVE InsertUsers(_, _)
InsertUsers(usrs, profs) ==
    IF profs = << >> THEN usrs
    ELSE InsertUsers(InsertUser(usrs, Head(profs).name, Head(profs).id), Tail(profs))

\* displayNameToID[name]: the id the insert of that entry returned.
DisplayNameToID(usrs, name) ==
    (CHOOSE u \in {usrs[i] : i \in 1..Len(usrs)} : u.DisplayName = name).ID

\* The loop over the records of data.json: a record whose owner is not a
\* name of profiles.json is skipped, every other one is inserted under the
\* id of its owner.
RECURSIVE InsertRecords(_, _, _, _)
InsertRecords(hist, usrs, names, data) ==
    IF data = << >> THEN hist
    ELSE IF Head(data).Owner \notin names
    THEN InsertRecords(hist, usrs, names, Tail(data))
    ELSE InsertRecords(InsertHistory(hist, Head(data),
                                     DisplayNameToID(usrs, Head(data).Owner)),
                       usrs, names, Tail(data))

\* A run of the migration program on the file: initDB, then every user of
\* profiles.json and every record of data.json in one transaction. Any
\* failure (a display name that the table holds already, a store that
\* fails or is full) is log.Fatalf before the commit, and nothing is
\* written.
Migrate(profs, data, dbOk) ==
    /\ LET names == {profs[i].name : i \in 1..Len(profs)}
           migrated == InsertUsers(users, profs)
           rows == SelectSeq(data, LAMBDA r : r.Owner \in names)
       IN  IF /\ dbOk
              /\ \A n \in names : ~UserExists(users, n)
              /\ Len(history) + Len(rows) <= MaxRows
           THEN /\ users' = migrated
                /\ history' = InsertRecords(history, migrated, names, data)
                /\ reply' = [NoReply EXCEPT !.op = "migrate"]
           ELSE /\ users' = users
                /\ history' = history
                /\ reply' = [NoReply EXCEPT !.op = "migrate", !.status = 1]
    /\ UNCHANGED << config, dbOpen, pc, cycleUsers, idx, profile, cycleLog, cycleBase,
                    tickerOn, tickPending, ctxDone, mainPc >>

\* The runs: with --add-user "alice,69", with --add-user "bob,6<LF>9" (a
\* profile id that holds a line feed), or without the flag.
RestartFlags == { << >>, << "alice", ",", "69" >>, << "bob", ",", "6\n9" >> }

RestartNext ==
    \/ \E nick \in EnvValues, pass \in EnvValues : LoadConfiguration(nick, pass)
    \/ \E dbOk \in BOOLEAN : InitializeDatabase(dbOk)
    \/ \E value \in RestartFlags, dbOk \in BOOLEAN : HandleFlags(value, dbOk)
    \/ Fetcher
    \/ Tick
    \/ ServerFails
    \/ Shutdown
    \/ Exit
    \/ Restart
    \/ \E profs \in MigrationProfiles, data \in MigrationData, dbOk \in BOOLEAN :
          Migrate(profs, data, dbOk)

RestartSpec == Init /\ [][RestartNext]_vars

(***************************************************************************)
(* The read handlers and the cycle of the startup in a process that serves *)
(* on a database file which earlier runs have filled.                      *)
(***************************************************************************)
\* The users tables that runs with --add-user leave behind.
UserTables ==
    {<< >>}
    \cup {InsertUser(<< >>, n, id) : n \in Names, id \in ProfileIDs}
    \cup {InsertUser(InsertUser(<< >>, nm[1], id), nm[2], id) :
             nm \in {x \in Names \X Names : x[1] # x[2]}, id \in ProfileIDs}

\* The profiles that fetchProfile returns for a user without an error.
FetchedProfiles(user) ==
    {FetchProfile(user, resp, now).profile :
        resp \in {r \in Responses : FetchProfile(user, r, 1).err = NilError},
        now \in 1..MaxTime}

\* The profile_history tables of at most n rows that cycles over the users
\* of usrs leave behind: each row is the insert of a fetched profile of one
\* of them.
RECURSIVE Histories(_, _)
Histories(usrs, n) ==
    IF n = 0 THEN {<< >>}
    ELSE LET shorter == Histories(usrs, n - 1)
         IN  shorter \cup
             UNION {{InsertHistory(h, p, usrs[i].ID) :
                        h \in {x \in shorter : Len(x) = n - 1},
                        p \in FetchedProfiles(usrs[i])} : i \in 1..Len(usrs)}

\* main has started the fetcher goroutine and the server on such a file;
\* the goroutine has not taken a step yet.
QueryInit ==
    /\ users \in UserTables
    /\ history \in Histories(users, MaxRows)
    /\ pc = "boot"
    /\ cycleUsers = << >>
    /\ idx = 0
    /\ profile = NoProfile
    /\ cycleLog = << >>
    /\ cycleBase = 0
    /\ tickerOn = FALSE
    /\ tickPending = FALSE
    /\ ctxDone = FALSE
    /\ mainPc = "serving"
    /\ config = [Nick |-> "secret", Pass |-> "secret"]
    /\ dbOpen = TRUE
    /\ reply = NoReply

\* Requests of the two read endpoints while the fetcher runs the cycle of
\* the startup.
QueryNext ==
    \/ \E dbOk \in BOOLEAN, plan \in QueryPlans :
          \E cut \in Cuts(dbOk, LatestPerAccount(history, users, plan)) :
             ProfilesHandler(dbOk, cut, plan)
    \/ \E o \in Names \cup {""}, dbOk \in BOOLEAN :
          \E cut \in Cuts(dbOk /\ o # "", HistoryFor(history, users, o)) :
             HistoryHandler(o, dbOk, cut)
    \/ \E dbOk \in BOOLEAN :
          \E cut \in Cuts(dbOk, GetUsers(users)) : StartCycle(dbOk, cut)
    \/ IssueFetch
    \/ \E resp \in Responses, now \in 1..MaxTime : FetchReturn(resp, now)
    \/ \E dbOk \in BOOLEAN : LogToDB(dbOk)
    \/ Sleep

QuerySpec == QueryInit /\ [][QueryNext]_vars

(***************************************************************************)
(* The serving process up to its end, under the scheduling of Go.          *)
(***************************************************************************)
\* main has started the fetcher goroutine and the server on a file to
\* which accounts have been added and on which no cycle has run.
ServingInit ==
    /\ QueryInit
    /\ history = << >>

\* The steps of the fetcher goroutine, the ticker, the server and main
\* from there on.
ServingNext ==
    \/ Fetcher
    \/ Tick
    \/ ServerFails
    \/ Shutdown
    \/ Exit

\* The scheduling of the fetcher goroutine: it keeps running while the
\* process lives, every request and every statement returns, and a select
\* with several cases that can proceed chooses among them at random.
LiveSpec == ServingInit /\ [][ServingNext]_vars /\ WF_vars(Fetcher) /\ SF_vars(SelectDone)

(***************************************************************************)
(* The store methods of State called directly, in any order and with any   *)
(* arguments, on a store that initializeDatabase has opened.               *)
(***************************************************************************)
\* The user ids given to logToDB: 3 is never the id of a row of users.
CallUserIDs == {1, 2, 3}

\* The profiles given to logToDB.
CallProfiles == {NewProfile(n, t) : n \in Names, t \in 1..MaxTime}

StoreInit ==
    /\ users = << >>
    /\ history = << >>
    /\ pc = "off"
    /\ cycleUsers = << >>
    /\ idx = 0
    /\ profile = NoProfile
    /\ cycleLog = << >>
    /\ cycleBase = 0
    /\ tickerOn = FALSE
    /\ tickPending = FALSE
    /\ ctxDone = FALSE
    /\ mainPc = "flags"
    /\ config = [Nick |-> "secret", Pass |-> "secret"]
    /\ dbOpen = TRUE
    /\ reply = NoReply

\* s.logToDB(p, userID): one INSERT INTO profile_history. The connection
\* is opened by sql.Open("sqlite", dbPath) and no statement sets PRAGMA
\* foreign_keys, so the FOREIGN KEY clause of the table is not enforced
\* and the insert does not look at the users table.
LogToDBCall(p, userID, dbOk) ==
    /\ dbOpen
    /\ IF dbOk /\ Len(history) < MaxRows
       THEN /\ history' = InsertHistory(history, p, userID)
            /\ reply' = [NoReply EXCEPT !.op = "logToDB", !.owner = p.Owner]
       ELSE /\ history' = history
            /\ reply' = [NoReply EXCEPT !.op = "logToDB", !.owner = p.Owner,
                                        !.status = 1]
    /\ UNCHANGED << config, dbOpen, users, pc, cycleUsers, idx, profile, cycleLog,
                    cycleBase, tickerOn, tickPending, ctxDone, mainPc >>

StoreNext ==
    \/ \E n \in Names, id \in ProfileIDs, dbOk \in BOOLEAN : AddUser(n, id, dbOk)
    \/ \E p \in CallProfiles, userID \in CallUserIDs, dbOk \in BOOLEAN :
          LogToDBCall(p, userID, dbOk)

StoreSpec == StoreInit /\ [][StoreNext]_vars

(***************************************************************************)
(* The body of the range loop of fetchAndLogAllProfiles run over two users *)
(* for a larger choice of answers of the remote site.                      *)
(***************************************************************************)
\* Value texts: "", "N/A", "42.", "42", "1 000", "1 000.", "1000.", a
\* numeral of twenty digits, and that numeral followed by a period.
TestValues ==
    { << >>, << "N", "/", "A" >>, << "4", "2", "." >>, << "4", "2" >>,
      << "1", " ", "0", "0", "0" >>, << "1", " ", "0", "0", "0", "." >>,
      << "1", "0", "0", "0", "." >>, [i \in 1..20 |-> "9"],
      [i \in 1..20 |-> "9"] \o << "." >> }

\* The five labels of the switch and one it does not know.
TestLabels ==
    {LabelRank, LabelUpload, LabelCurrentUpload, LabelCurrentDownload,
     LabelPoints, "Regisztralt:"}

\* Pages of two pairs: an upload value, then one label with one value.
TestDocs ==
    {[pairs |-> << [label |-> LabelUpload, value |-> << "1", "T" >>],
                   [label |-> l, value |-> v] >>,
      heads |-> << >>] : l \in TestLabels, v \in TestValues}

TestResponses ==
    Responses
    \cup {[neterr |-> FALSE, status |-> 500, readerr |-> FALSE, doc |-> EmptyDoc]}
    \cup {[neterr |-> FALSE, status |-> StatusOK, readerr |-> FALSE, doc |-> d] :
             d \in TestDocs}

\* A cycle has read two users and stands before its first request.
FetchInit ==
    /\ users = InsertUser(InsertUser(<< >>, "alice", "69"), "bob", "69")
    /\ history = << >>
    /\ pc = "fetch"
    /\ cycleUsers = GetUsers(users)
    /\ idx = 1
    /\ profile = NoProfile
    /\ cycleLog = << >>
    /\ cycleBase = 0
    /\ tickerOn = FALSE
    /\ tickPending = FALSE
    /\ ctxDone = FALSE
    /\ mainPc = "serving"
    /\ config = [Nick |-> "secret", Pass |-> "secret"]
    /\ dbOpen = TRUE
    /\ reply = NoReply

FetchNext ==
    \/ IssueFetch
    \/ \E resp \in TestResponses, now \in 1..MaxTime : FetchReturn(resp, now)
    \/ \E dbOk \in BOOLEAN : LogToDB(dbOk)
    \/ Sleep

FetchSpec == FetchInit /\ [][FetchNext]_vars

\* Texts of a .lista_mini_fej element: "S (12)", "S", "(x) (7)",
\* "(3) (4)", "(12", "(012)" and a group of twenty digits.
SeedingTexts ==
    { << "S", " ", "(", "1", "2", ")" >>, << "S" >>,
      << "(", "x", ")", " ", "(", "7", ")" >>,
      << "(", "3", ")", " ", "(", "4", ")" >>,
      << "(", "1", "2" >>, << "(", "0", "1", "2", ")" >>,
      << "(" >> \o [i \in 1..20 |-> "9"] \o << ")" >> }

\* Texts of the elements of a page that has two of them: "S (12)", "S",
\* "(3) (4)" and the group of twenty digits.
RepeatTexts ==
    { << "S", " ", "(", "1", "2", ")" >>, << "S" >>,
      << "(", "3", ")", " ", "(", "4", ")" >>,
      << "(" >> \o [i \in 1..20 |-> "9"] \o << ")" >> }

\* Pages with one or two .lista_mini_fej elements and no label.
TestSeedingDocs ==
    {[pairs |-> << >>, heads |-> << t >>] : t \in SeedingTexts}
    \cup {[pairs |-> << >>, heads |-> << t1, t2 >>] : t1, t2 \in RepeatTexts}

\* Values of a label that occurs twice: "7", "N/A" and a numeral of twenty
\* digits.
RepeatValues ==
    { << "7" >>, << "N", "/", "A" >>, [i \in 1..20 |-> "9"] }

\* Pages on which one label of the switch occurs twice.
TestRepeatDocs ==
    {[pairs |-> << [label |-> l, value |-> v1], [label |-> l, value |-> v2] >>,
      heads |-> << >>] :
        l \in {LabelRank, LabelPoints, LabelUpload}, v1, v2 \in RepeatValues}

\* Answers with a page that has seeding elements or a repeated label.
RepeatResponses ==
    {[neterr |-> FALSE, status |-> StatusOK, readerr |-> FALSE, doc |-> d] :
        d \in TestSeedingDocs \cup TestRepeatDocs}

RepeatNext ==
    \/ IssueFetch
    \/ \E resp \in RepeatResponses, now \in 1..MaxTime : FetchReturn(resp, now)
    \/ \E dbOk \in BOOLEAN : LogToDB(dbOk)
    \/ Sleep

RepeatSpec == FetchInit /\ [][RepeatNext]_vars

(***************************************************************************)
(* Properties.                                                             *)
(***************************************************************************)
\* The fields of a returned item are those of a stored row.
SameSnapshot(item, row) ==
    /\ item.Timestamp = row.timestamp
    /\ item.Rank = row.rank
    /\ item.Upload = row.upload
    /\ item.CurrentUpload = row.current_upload
    /\ item.CurrentDownload = row.current_download
    /\ item.Points = row.points
    /\ item.SeedingCount = row.seeding_count

\* The positions of the profile_history rows of the account named name.
RowsOfName(name) ==
    {k \in 1..Len(history) :
        \E i \in 1..Len(users) : /\ users[i].ID = history[k].user_id
                                 /\ users[i].DisplayName = name}

\* The positions of the items of the reply that carry the owner name.
ItemsOfName(name) == {j \in 1..Len(reply.items) : reply.items[j].Owner = name}

\* The fetcher stands inside the range loop of a cycle.
InCycle == pc \in {"fetch", "inflight", "log", "sleep", "cycleEnd"}

\* The rows appended since the cycle started, for the user at position i of
\* the list of the cycle.
NewRowsOf(i) ==
    {k \in (cycleBase + 1)..Len(history) : history[k].user_id = cycleUsers[i].ID}

\* The log lines of the cycle that name the user at position i of its list.
LinesOf(i) ==
    {j \in 1..Len(cycleLog) : cycleLog[j].name = cycleUsers[i].DisplayName}

\* C1: a successful answer of GET /api/profiles holds exactly one item for
\* every account that has a snapshot, and that item carries the greatest
\* timestamp of the account's snapshots.
C1_OneLatestRowPerAccount ==
    (reply.op = "profiles" /\ reply.status = StatusOK) =>
        \A i \in 1..Len(users) :
            LET name == users[i].DisplayName
            IN  RowsOfName(name) # {} =>
                  /\ Cardinality(ItemsOfName(name)) = 1
                  /\ \A j \in ItemsOfName(name) : \A k \in RowsOfName(name) :
                        history[k].timestamp <= reply.items[j].Timestamp

\* C2: a successful answer of GET /api/history?owner=name whose read ran
\* to the end holds exactly the snapshots of the account of that name,
\* each as often as it is stored, in non-decreasing order of timestamp.
C2_HistoryExactAndOrdered ==
    (reply.op = "history" /\ reply.status = StatusOK /\ ~reply.rowsErr) =>
        LET items == reply.items
            mine == RowsOfName(reply.owner)
        IN  /\ \A j \in 1..Len(items) : items[j].Owner = reply.owner
            /\ Len(items) = Cardinality(mine)
            /\ \A j \in 1..Len(items) :
                  Cardinality({m \in 1..Len(items) : items[m] = items[j]})
                    = Cardinality({k \in mine : SameSnapshot(items[j], history[k])})
            /\ \A j \in 1..(Len(items) - 1) : items[j].Timestamp <= items[j + 1].Timestamp

\* C2 witness: the answer holds two snapshots that are stored in the
\* opposite order of their timestamps.
C2_Witness ==
    /\ reply.op = "history"
    /\ reply.status = StatusOK
    /\ Len(reply.items) = 2
    /\ Len(history) = 2
    /\ history[1].timestamp > history[2].timestamp
    /\ reply.items[1].Timestamp < reply.items[2].Timestamp

\* C3: inside a cycle every user before the current one has its log line,
\* whatever its outcome was, and when the loop ends every user of the list
\* has been fetched and each one logged as written has a new row.
C3_FailureDoesNotStopCycle ==
    InCycle =>
        /\ Len(cycleLog) = (IF pc \in {"sleep", "cycleEnd"} THEN idx ELSE idx - 1)
        /\ pc = "cycleEnd" => idx = Len(cycleUsers)
        /\ \A j \in 1..Len(cycleLog) :
              /\ cycleLog[j].name = cycleUsers[j].DisplayName
              /\ cycleLog[j].what = "logged successfully" => NewRowsOf(j) # {}

\* C3 witness: a cycle over two users has ended; the fetch of the first
\* failed and the snapshot of the second was written.
C3_Witness ==
    /\ pc = "cycleEnd"
    /\ Len(cycleUsers) = 2
    /\ Len(cycleLog) = 2
    /\ cycleLog[1].what = "Error fetching profile"
    /\ cycleLog[2].what = "logged successfully"
    /\ NewRowsOf(2) # {}

\* C4: once the context is cancelled, the fetcher starts no cycle for a tick.
C4_NoCycleAfterCancel ==
    [][ctxDone => ~(pc = "tickTaken" /\ pc' \in {"fetch", "select"})]_vars

\* C5: with the context cancelled, the fetcher standing between two users
\* of a cycle sends no request for the next user.
C5_NoFetchAfterCancel ==
    [][(ctxDone /\ pc = "fetch" /\ idx > 1) => pc' # "inflight"]_vars

\* C6: after the cancellation the fetcher goroutine ends: it returns, or it
\* ends with the process; a cancellation that finds it blocked in the
\* select makes its next step the return, with no fetch and no insert.
C6_CancelledFetcherEnds ==
    /\ ctxDone ~> (pc = "done" \/ ~Alive)
    /\ [][(pc = "wait" /\ ~ctxDone /\ ctxDone') => pc' = "doneTaken"]_vars
    /\ [][pc = "doneTaken" =>
            /\ pc' \in {"doneTaken", "done"}
            /\ history' = history
            /\ cycleLog' = cycleLog]_vars

\* C6 witness: the fetcher has returned after the cancellation while the
\* process is still shutting down.
C6_Witness ==
    /\ ctxDone
    /\ pc = "done"
    /\ mainPc = "shutdown"

\* C7: every item of an answer of a read handler equals, in all fields, a
\* stored row of the account it names; a profile held by the fetcher and
\* not yet inserted is in no answer.
C7_ReadsReturnStoredRows ==
    reply.op \in {"profiles", "history"} =>
        \A j \in 1..Len(reply.items) :
            \E k \in RowsOfName(reply.items[j].Owner) :
                SameSnapshot(reply.items[j], history[k])

\* C7 witness: /api/profiles is answered while the fetcher holds the
\* extracted profile of the second user of the cycle; the answer holds the
\* row of the first user only.
C7_Witness ==
    /\ reply.op = "profiles"
    /\ reply.status = StatusOK
    /\ pc = "log"
    /\ idx = 2
    /\ Len(history) = cycleBase + 1
    /\ Len(reply.items) = 1
    /\ reply.items[1].Owner = cycleUsers[1].DisplayName

\* C8: no step removes or changes a stored row of profile_history.
C8_HistoryAppendOnly ==
    [][/\ Len(history') >= Len(history)
       /\ \A k \in 1..Len(history) : history'[k] = history[k]]_vars

\* C8 witness: an account has two rows, the later insert having left the
\* earlier row in place.
C8_Witness ==
    /\ Len(history) = 2
    /\ history[1].user_id = history[2].user_id
    /\ history[1].id = 1
    /\ history[2].id = 2

\* C9: a user whose fetch failed in the cycle has no row appended in it.
C9_FailedFetchAddsNoRow ==
    InCycle =>
        \A i \in 1..Len(cycleUsers) :
            (\E j \in LinesOf(i) : cycleLog[j].what = "Error fetching profile")
                => NewRowsOf(i) = {}

\* C9 witness: the cycle has ended, the fetch of the first user failed and
\* the only row appended belongs to the second user.
C9_Witness ==
    /\ pc = "cycleEnd"
    /\ Len(cycleUsers) = 2
    /\ cycleLog[1].what = "Error fetching profile"
    /\ NewRowsOf(1) = {}
    /\ NewRowsOf(2) # {}

\* C10: in a cycle every user of the list has at most one log line (one
\* fetch) and at most one new row, and exactly one new row when its line
\* says the profile was logged.
C10_OncePerCycle ==
    InCycle =>
        \A i \in 1..Len(cycleUsers) :
            /\ Cardinality(LinesOf(i)) <= 1
            /\ Cardinality(NewRowsOf(i)) <= 1
            /\ (\E j \in LinesOf(i) : cycleLog[j].what = "logged successfully")
                  <=> Cardinality(NewRowsOf(i)) = 1

\* C10 witness: a cycle over two users has ended with one new row for each.
C10_Witness ==
    /\ pc = "cycleEnd"
    /\ Len(cycleUsers) = 2
    /\ Cardinality(NewRowsOf(1)) = 1
    /\ Cardinality(NewRowsOf(2)) = 1
    /\ Len(history) = cycleBase + 2

\* C11: an account that has no snapshot has no item in any answer of
\* GET /api/profiles.
C11_NoSnapshotNotListed ==
    reply.op = "profiles" =>
        \A i \in 1..Len(users) :
            RowsOfName(users[i].DisplayName) = {} =>
                ItemsOfName(users[i].DisplayName) = {}

\* C11 witness: of two accounts only the second has a snapshot, and the
\* answer of GET /api/profiles holds the one item of the second.
C11_Witness ==
    /\ reply.op = "profiles"
    /\ reply.status = StatusOK
    /\ Len(users) = 2
    /\ RowsOfName(users[1].DisplayName) = {}
    /\ RowsOfName(users[2].DisplayName) # {}
    /\ Len(reply.items) = 1
    /\ reply.items[1].Owner = users[2].DisplayName

\* C12: GET /api/history?owner=name for a name without stored snapshots,
\* whether it names an account or not, is answered with success and no
\* items unless the store fails, and the answer is the same in both cases:
\* the encoding of a list without rows.
C12_NoRowsIsSuccess ==
    (/\ reply.op = "history"
     /\ reply.owner # ""
     /\ RowsOfName(reply.owner) = {}
     /\ reply.status # StatusInternalServerError) =>
        /\ reply.status = StatusOK
        /\ reply.items = << >>
        /\ reply = JsonReply("history", reply.owner, << >>)

\* C12 witness: the history of a name that is no account is asked for
\* while another account has a snapshot, and the answer is a success
\* without items.
C12_Witness ==
    /\ reply.op = "history"
    /\ reply.owner # ""
    /\ ~UserExists(users, reply.owner)
    /\ Len(history) > 0
    /\ reply.status = StatusOK
    /\ reply.items = << >>

\* C13: a successful answer of GET /api/profiles or GET /api/history whose
\* query yielded no rows has the empty JSON array [] as its body, not null.
C13_EmptyBodyIsArray ==
    (/\ reply.op \in {"profiles", "history"}
     /\ reply.status = StatusOK
     /\ reply.items = << >>) => ~reply.null

\* C14: GET /api/history whose owner parameter is missing or empty is
\* answered 400 whatever the state of the store (the store is not asked,
\* so its failure cannot show), and the answer carries no snapshot.
C14_MissingOwnerIsBadRequest ==
    (reply.op = "history" /\ reply.owner = "") =>
        /\ reply.status = StatusBadRequest
        /\ reply.items = << >>
        /\ ~reply.null

\* C14 witness: the store holds a snapshot and a request without owner has
\* been answered 400.
C14_Witness ==
    /\ reply.op = "history"
    /\ reply.owner = ""
    /\ reply.status = StatusBadRequest
    /\ Len(history) > 0

\* A request of one of the two read endpoints whose read of the store
\* fails: the query or a scan, or the stepping to the next row before the
\* result is exhausted.
ReadFails ==
    \/ \E cut \in 0..Len(history), plan \in QueryPlans :
          ProfilesHandler(FALSE, cut, plan)
    \/ \E o \in Names, cut \in 0..Len(history) : HistoryHandler(o, FALSE, cut)
    \/ \E cut \in 0..Len(history), plan \in QueryPlans :
          /\ cut < Len(LatestPerAccount(history, users, plan))
          /\ ProfilesHandler(TRUE, cut, plan)
    \/ \E o \in Names, cut \in 0..Len(history) :
          /\ cut < Len(HistoryFor(history, users, o))
          /\ HistoryHandler(o, TRUE, cut)

\* C15: a GET /api/profiles or GET /api/history whose read of the store
\* fails (the query, a row scan, or the stepping through the result) is
\* answered 500 with no item at all, and leaves both tables as they were.
C15_FailedReadIsServerError ==
    [][ReadFails =>
          /\ reply'.status = StatusInternalServerError
          /\ reply'.items = << >>
          /\ ~reply'.null
          /\ users' = users
          /\ history' = history]_vars

\* C16: an add-user whose display name is already in the users table fails
\* and leaves the table as it was, and so no two rows of the table ever
\* carry the same display name.
C16_DisplayNameUnique ==
    /\ [](\A i, j \in 1..Len(users) :
             users[i].DisplayName = users[j].DisplayName => i = j)
    /\ [][(/\ reply'.op = "add-user"
           /\ \E i \in 1..Len(users) : users[i].DisplayName = reply'.owner) =>
             (reply'.status = 1 /\ users' = users)]_vars

\* C16 witness: the table holds two accounts and an add-user for the name
\* of one of them has failed.
C16_Witness ==
    /\ reply.op = "add-user"
    /\ reply.status = 1
    /\ Len(users) = 2
    /\ \E i \in 1..Len(users) : users[i].DisplayName = reply.owner

\* C17: a process started with a value of --add-user that does not split
\* into exactly two comma-separated parts ends fatally and inserts no
\* account; one started with a value of exactly two parts calls addUser
\* with them, which inserts the account (unless the display name is
\* taken, C16, or the store fails), and ends too. In both cases the goroutine of the fetcher
\* and the server are never started by that process.
C17_AddUserInput ==
    /\ [][\A value \in FlagInputs \ {<< >>}, dbOk \in BOOLEAN :
            HandleFlags(value, dbOk) =>
              /\ mainPc' \in {"fatal", "exited"}
              /\ pc' = "off"
              /\ ~tickerOn'
              /\ Len(Split(value)) # 2 => (mainPc' = "fatal" /\ users' = users)
              /\ Len(Split(value)) = 2 =>
                   LET name == Split(value)[1]
                       id == Split(value)[2]
                   IN  IF ~dbOk \/ \E i \in 1..Len(users) : users[i].DisplayName = name
                       THEN mainPc' = "fatal" /\ users' = users
                       ELSE /\ mainPc' = "exited"
                            /\ users' = Append(users,
                                   [ID |-> Len(users) + 1, DisplayName |-> name,
                                    ProfileID |-> id])]_vars
    /\ [][(mainPc = "fatal" \/ mainPc = "exited") =>
            (/\ mainPc' = mainPc
             /\ pc' = pc
             /\ tickerOn' = tickerOn
             /\ reply'.op # "profiles"
             /\ reply'.op # "history")]_vars

\* C17 witness: a process started with a malformed value has ended fatally
\* on a store that holds an account, without starting the fetcher.
C17_Witness ==
    /\ mainPc = "fatal"
    /\ dbOpen
    /\ pc = "off"
    /\ reply.op = "add-user"
    /\ reply.status = 1
    /\ reply.owner = ""
    /\ Len(users) = 1
    /\ users[1].DisplayName # ""

\* C18: a process whose NICK or PASS is unset or empty ends fatally in
\* loadConfiguration; while the configuration of a process lacks either
\* value the store has not been opened, the fetcher goroutine and the
\* server have not been started and no request is in flight, so no fetch
\* is ever sent with a missing credential.
C18_CredentialsRequired ==
    /\ []((config.Nick = "" \/ config.Pass = "") =>
            /\ ~dbOpen
            /\ mainPc \in {"start", "fatal"}
            /\ pc = "off"
            /\ ~tickerOn
            /\ reply.op \notin {"profiles", "history"})
    /\ [][\A nick \in EnvValues, pass \in EnvValues :
            ((nick = "" \/ pass = "") /\ LoadConfiguration(nick, pass)) =>
                (mainPc' = "fatal" /\ ~dbOpen' /\ pc' = "off")]_vars
    /\ [](pc = "inflight" => (config.Nick # "" /\ config.Pass # ""))

\* C18 witness: a process without credentials has ended in
\* loadConfiguration, the store unopened and the fetcher not started.
C18_Witness ==
    /\ mainPc = "fatal"
    /\ config = NoConfig
    /\ ~dbOpen
    /\ pc = "off"

\* C19: a logToDB whose user id is the id of no row of users returns an
\* error and inserts no row.
C19_UnknownAccountRejected ==
    [][\A p \in CallProfiles, userID \in CallUserIDs, dbOk \in BOOLEAN :
          (/\ LogToDBCall(p, userID, dbOk)
           /\ \A i \in 1..Len(users) : users[i].ID # userID) =>
              (reply'.status = 1 /\ history' = history)]_vars

\* C20: in every state the program reaches, the user_id of every row of
\* profile_history is the id of a row of users.
C20_SnapshotsReferenceAccounts ==
    \A k \in 1..Len(history) :
        \E i \in 1..Len(users) : users[i].ID = history[k].user_id

\* C20 witness: the store holds two accounts and one snapshot of each.
C20_Witness ==
    /\ Len(users) = 2
    /\ Len(history) = 2
    /\ history[1].user_id # history[2].user_id

\* C21: the fetcher stands at its select (and the ticker exists) only after
\* the call of fetchAndLogAllProfiles made at startup has returned; inside
\* a cycle the users are handled one after the other in the order of the
\* list read by getUsers, the user at position i being finished (its log
\* line written, its row, if any, inserted) before the request for the
\* user at position i + 1 is sent, so the new rows lie in list order.
C21_FirstCycleThenInOrder ==
    /\ []((pc \in {"select", "wait", "tickTaken", "doneTaken"}) => tickerOn)
    /\ []((pc \in {"off", "boot"}) => ~tickerOn)
    /\ [][(~tickerOn /\ tickerOn') =>
             (pc \in {"boot", "cycleEnd"} /\ pc' = "select")]_vars
    /\ [](InCycle =>
            /\ Len(cycleLog) = IF pc \in {"fetch", "inflight", "log"}
                               THEN idx - 1 ELSE idx
            /\ \A j \in 1..Len(cycleLog) :
                  cycleLog[j].name = cycleUsers[j].DisplayName
            /\ \A k \in (cycleBase + 1)..Len(history) :
                  \E i \in 1..Len(cycleLog) :
                      /\ cycleUsers[i].ID = history[k].user_id
                      /\ \A m \in (cycleBase + 1)..(k - 1) :
                            \E h \in 1..(i - 1) :
                                cycleUsers[h].ID = history[m].user_id)

\* C21 witness: in the first cycle (no ticker yet) the request for the
\* second user is in flight and the row of the first user is stored.
C21_Witness ==
    /\ pc = "inflight"
    /\ ~tickerOn
    /\ idx = 2
    /\ NewRowsOf(1) # {}

\* C22: fetchAndLogAllProfiles is called once at startup and otherwise only
\* for a tick received from ticker.C, once per tick received (the channel
\* holds one tick, so a tick is received at most once); a request to a
\* handler or to add-user moves the fetcher nowhere, a failed fetch or
\* insert only moves it on inside the cycle, and a finished cycle leads to
\* the select.
C22_CycleOnlyOnTick ==
    /\ [][(pc' = "boot") => (pc \in {"off", "boot"})]_vars
    /\ [][(pc' = "fetch" /\ idx' = 1 /\ ~(pc = "fetch" /\ idx = 1)) =>
             (pc \in {"boot", "tickTaken"})]_vars
    /\ [][(pc' = "tickTaken" /\ pc # "tickTaken") =>
             \/ (pc = "select" /\ tickPending /\ ~tickPending')
             \/ (pc = "wait" /\ tickerOn /\ ~tickPending /\ ~tickPending')]_vars
    /\ [][(pc = "tickTaken" /\ pc' # "tickTaken") =>
             (pc' \in {"fetch", "select"} /\ tickPending' = tickPending)]_vars
    /\ [][(reply'.op # "none") =>
             (pc' = pc /\ idx' = idx /\ cycleUsers' = cycleUsers)]_vars
    /\ [][(InCycle /\ pc' # pc) =>
             /\ cycleUsers' = cycleUsers \/ (pc = "cycleEnd" /\ pc' = "select")
             /\ pc' \in {"fetch", "inflight", "log", "sleep", "cycleEnd", "select"}
             /\ (pc' = "fetch") => (idx' = idx + 1)
             /\ (pc' = "select") => (pc = "cycleEnd")]_vars

\* C22 witness: a cycle has just started for a tick taken from the
\* channel, after an earlier cycle stored a row.
C22_Witness ==
    /\ pc = "fetch"
    /\ idx = 1
    /\ tickerOn
    /\ ~tickPending
    /\ Len(history) > 0

\* C23: the fetcher is one goroutine that does one thing at a time. A
\* request is sent only from the loop position before it and the loop
\* moves on only when fetchProfile has returned; a tick that fires while a
\* cycle runs waits in the channel and starts nothing; and a row is added
\* to profile_history only by the logToDB step of that goroutine, one row
\* per step.
C23_OneFetchAndAppendAtATime ==
    /\ [][(pc' = "inflight" /\ pc # "inflight") => (pc = "fetch" /\ idx' = idx)]_vars
    /\ [][(pc = "inflight" /\ pc' # "inflight") =>
             (pc' \in {"log", "fetch", "cycleEnd"} /\ history' = history)]_vars
    /\ [][(InCycle /\ pc' # pc) => (pc' \in {"fetch", "inflight", "log", "sleep",
                                            "cycleEnd", "select"})]_vars
    /\ [][(InCycle /\ tickPending' # tickPending) =>
             (pc' = pc /\ idx' = idx /\ cycleUsers' = cycleUsers
              /\ history' = history)]_vars
    /\ [][(history' # history) =>
             (/\ pc = "log"
              /\ pc' = "sleep"
              /\ reply'.op = "none"
              /\ Len(history') = Len(history) + 1
              /\ SubSeq(history', 1, Len(history)) = history
              /\ history'[Len(history')].user_id = cycleUsers[idx].ID)]_vars

\* C23 witness: the request for the second user of a cycle is in flight
\* while a tick waits in the channel.
C23_Witness ==
    /\ pc = "inflight"
    /\ idx = 2
    /\ tickerOn
    /\ tickPending

\* C24: the users table changes only by a successful add-user, which
\* appends one row; no step of the fetcher and no handler changes it.
C24_UsersChangeOnlyByAdd ==
    [][(users' # users) =>
          (/\ reply'.op = "add-user"
           /\ reply'.status = 0
           /\ Len(users') = Len(users) + 1
           /\ SubSeq(users', 1, Len(users)) = users
           /\ users'[Len(users')].DisplayName = reply'.owner
           /\ pc' = pc
           /\ history' = history)]_vars

\* C24 witness: a cycle over two users has ended, one fetch failed and one
\* row was stored, and the users table is the list the cycle started with.
C24_Witness ==
    /\ pc = "cycleEnd"
    /\ Len(cycleUsers) = 2
    /\ users = cycleUsers
    /\ cycleLog[1].what = "Error fetching profile"
    /\ Len(history) = cycleBase + 1

\* C25: the fetcher goroutine returns only from the ctx.Done() case of its
\* select, so only after cancellation. A failed getUsers, an empty users
\* table, a failed fetch and a failed insert all leave it inside the cycle
\* or at the select, and from the select a live fetcher takes a tick that
\* is there, is woken by one that comes, and then starts the next cycle.
C25_EndsOnlyOnCancel ==
    /\ []((pc \in {"doneTaken", "done"}) => ctxDone)
    /\ [][(pc' = "done" /\ pc # "done") => (pc = "doneTaken")]_vars
    /\ [][(pc' = "doneTaken" /\ pc # "doneTaken") =>
             (pc \in {"select", "wait"} /\ ctxDone')]_vars
    /\ [][((pc \in {"boot", "tickTaken"} \/ InCycle) /\ pc' # pc) =>
             (pc' \in {"fetch", "inflight", "log", "sleep", "cycleEnd", "select"})]_vars
    /\ []((Alive /\ pc = "select" /\ tickPending) => ENABLED SelectTick)
    /\ []((Alive /\ pc = "wait") => (tickerOn /\ ENABLED Tick))
    /\ []((Alive /\ pc = "tickTaken") => ENABLED StartCycle(TRUE, Len(users)))

\* C25 witness: the users table is empty, so the cycle of the startup
\* returned early, and the live fetcher has taken the next tick.
C25_Witness ==
    /\ pc = "tickTaken"
    /\ users = << >>
    /\ ~ctxDone
    /\ Alive

\* C26: inside a cycle the request for the next user is sent only after
\* the pause: the loop reaches the fetch of user i + 1 from the
\* time.Sleep that follows user i, whatever happened to user i.
C26_PauseBetweenFetches ==
    [][(pc' = "fetch" /\ idx' = idx + 1 /\ idx >= 1) => (pc = "sleep")]_vars

\* The texts an error value of fetchProfile holds: its message, which has
\* no other argument than the status code.
ErrorTexts(err) == {err.what}

\* C27: a fetchProfile whose response has a status other than 200 returns
\* no profile and an error value that holds both the display name of the
\* user and the status code.
C27_StatusErrorNamesAccount ==
    [][\A resp \in TestResponses, now \in 1..MaxTime :
          (FetchReturn(resp, now) /\ ~resp.neterr /\ resp.status # StatusOK) =>
              LET user == cycleUsers[idx]
                  got == FetchProfile(user, resp, now)
              IN  /\ got.profile = NoProfile
                  /\ got.err.code = resp.status
                  /\ user.DisplayName \in ErrorTexts(got.err)]_vars

\* The labels of the five cases of the switch.
KnownLabels ==
    {LabelRank, LabelUpload, LabelCurrentUpload, LabelCurrentDownload, LabelPoints}

\* C28: in an extraction a pair whose label is none of the five known
\* labels changes no field of the profile being built: the profile after
\* the pair is the profile before it, and the profile returned is the one
\* extracted from the page without such pairs.
C28_UnknownLabelIgnored ==
    [][\A resp \in TestResponses, now \in 1..MaxTime :
          (/\ FetchReturn(resp, now)
           /\ ~resp.neterr /\ resp.status = StatusOK /\ ~resp.readerr) =>
              LET pairs == resp.doc.pairs
                  owner == cycleUsers[idx].DisplayName
                  start == NewProfile(owner, now)
              IN  /\ \A k \in 1..Len(pairs) :
                        pairs[k].label \notin KnownLabels =>
                            EachLabel(start, SubSeq(pairs, 1, k))
                              = EachLabel(start, SubSeq(pairs, 1, k - 1))
                  /\ profile' = Extract(
                         [resp.doc EXCEPT !.pairs = SelectSeq(pairs,
                              LAMBDA pr : pr.label \in KnownLabels)],
                         owner, now)]_vars

\* C28 witness: fetchProfile has returned the profile of a page that gives
\* the upload "1T" and then the value "42." under a label the switch does
\* not know: the upload is kept and the rank is still 0.
C28_Witness ==
    /\ pc = "log"
    /\ \E now \in 1..MaxTime :
          profile = Extract(
              [pairs |-> << [label |-> LabelUpload, value |-> << "1", "T" >>],
                            [label |-> "Regisztralt:", value |-> << "4", "2", "." >>] >>,
               heads |-> << >>],
              cycleUsers[idx].DisplayName, now)
    /\ profile.Upload = << "1", "T" >>
    /\ profile.Rank = 0

\* C29: in an extraction a rank or points pair whose value text does not
\* convert to an integer (empty, not a numeral, or a numeral out of the
\* range of int) sets that field to 0 and changes no other field;
\* fetchProfile still returns the profile without an error, and the
\* insert that follows stores it as it is.
C29_UnconvertibleIsZero ==
    /\ [][\A resp \in TestResponses, now \in 1..MaxTime :
            (/\ FetchReturn(resp, now)
             /\ ~resp.neterr /\ resp.status = StatusOK /\ ~resp.readerr) =>
                LET pairs == resp.doc.pairs
                    user == cycleUsers[idx]
                    start == NewProfile(user.DisplayName, now)
                IN  /\ FetchProfile(user, resp, now).err = NilError
                    /\ pc' = "log"
                    /\ \A k \in 1..Len(pairs) :
                          LET before == EachLabel(start, SubSeq(pairs, 1, k - 1))
                              after == EachLabel(start, SubSeq(pairs, 1, k))
                              v == pairs[k].value
                          IN  /\ (/\ pairs[k].label = LabelRank
                                  /\ Atoi(TrimSuffix(v, << "." >>)).err # "nil") =>
                                     after = [before EXCEPT !.Rank = 0]
                              /\ (/\ pairs[k].label = LabelPoints
                                  /\ Atoi(RemoveAll(v, " ")).err # "nil") =>
                                     after = [before EXCEPT !.Points = 0]]_vars
    /\ [][(pc = "log" /\ history' # history) =>
             (/\ SameSnapshot(profile, history'[Len(history')])
              /\ history'[Len(history')].user_id = cycleUsers[idx].ID)]_vars


\* Value texts of the form the numeric fields are written in: digits, with
\* single spaces as thousands separators between them and possibly one
\* trailing period; short enough to be in the range of int.
SeparatedNumeral(v) ==
    LET body == TrimSuffix(v, << "." >>)
    IN  /\ body # << >>
        /\ \A i \in 1..Len(body) : body[i] \in Digits \cup {" "}
        /\ body[1] \in Digits /\ body[Len(body)] \in Digits
        /\ Len(v) <= 9

DigitsOf(v) == SelectSeq(v, LAMBDA c : c \in Digits)

\* C30: in an extraction a rank or points pair whose value is a digit
\* string with a thousands separator and/or a trailing period sets the
\* field to the integer formed by its digits; the rank value "42." gives
\* 42 and the rank value "N/A" gives 0.
C30_SeparatorsAndPeriodStripped ==
    [][\A resp \in TestResponses, now \in 1..MaxTime :
          (/\ FetchReturn(resp, now)
           /\ ~resp.neterr /\ resp.status = StatusOK /\ ~resp.readerr) =>
              LET pairs == resp.doc.pairs
                  start == NewProfile(cycleUsers[idx].DisplayName, now)
              IN  \A k \in 1..Len(pairs) :
                     LET after == EachLabel(start, SubSeq(pairs, 1, k))
                         v == pairs[k].value
                     IN  /\ (pairs[k].label = LabelRank /\ v = << "4", "2", "." >>) =>
                                after.Rank = 42
                         /\ (pairs[k].label = LabelRank /\ v = << "N", "/", "A" >>) =>
                                after.Rank = 0
                         /\ (pairs[k].label = LabelRank /\ SeparatedNumeral(v)) =>
                                after.Rank = DecimalValue(DigitsOf(v))
                         /\ (pairs[k].label = LabelPoints /\ SeparatedNumeral(v)) =>
                                after.Points = DecimalValue(DigitsOf(v))]_vars


\* The parenthesized digit groups of a text, as pairs of the positions of
\* their parentheses, and the digits of the first of them.
DigitGroups(text) ==
    LET opens == {i \in 1..Len(text) : text[i] = "("}
        closes == {j \in 1..Len(text) : text[j] = ")"}
    IN  {g \in opens \X closes :
            /\ g[2] > g[1] + 1
            /\ \A k \in (g[1] + 1)..(g[2] - 1) : text[k] \in Digits}

FirstGroup(text) ==
    LET groups == DigitGroups(text)
        g == CHOOSE h \in groups : \A o \in groups : h[1] <= o[1]
    IN  SubSeq(text, g[1] + 1, g[2] - 1)

\* C31: the profile returned for a page with one seeding element has as
\* seeding count the integer inside the first parenthesized digit group of
\* the element's text (for a group within the range of int), and 0 when the
\* text has no such group; a page without the element gives 0.
C31_SeedingCountFromFirstGroup ==
    [][\A resp \in RepeatResponses, now \in 1..MaxTime :
          (/\ FetchReturn(resp, now)
           /\ Len(resp.doc.heads) <= 1) =>
              LET heads == resp.doc.heads
              IN  /\ pc' = "log"
                  /\ heads = << >> => profile'.SeedingCount = 0
                  /\ (heads # << >> /\ DigitGroups(heads[1]) = {}) =>
                         profile'.SeedingCount = 0
                  /\ (/\ heads # << >> /\ DigitGroups(heads[1]) # {}
                      /\ Len(FirstGroup(heads[1])) <= 9) =>
                         profile'.SeedingCount = DecimalValue(FirstGroup(heads[1]))]_vars

\* C31 witness: fetchProfile has returned the profile of a page whose only
\* seeding element reads "(3) (4)": the seeding count is 3.
C31_Witness ==
    /\ pc = "log"
    /\ \E now \in 1..MaxTime :
          profile = Extract(
              [pairs |-> << >>,
               heads |-> << << "(", "3", ")", " ", "(", "4", ")" >> >>],
              cycleUsers[idx].DisplayName, now)
    /\ profile.SeedingCount = 3


\* What a page says of a label: the value of its last pair with the label,
\* and whether it has such a pair.
Labelled(doc, label) ==
    {k \in 1..Len(doc.pairs) : doc.pairs[k].label = label}

LastLabelled(doc, label) ==
    doc.pairs[CHOOSE k \in Labelled(doc, label) :
                 \A m \in Labelled(doc, label) : k >= m].value

\* The seeding elements of a page whose first parenthesized digit group is
\* a number within the range of int.
Counted(doc) ==
    {k \in 1..Len(doc.heads) :
        /\ DigitGroups(doc.heads[k]) # {}
        /\ ~NumeralGE(StripZeros(FirstGroup(doc.heads[k])), TwoTo63)}

\* The snapshot of a page for an account at a time, written from the page
\* alone: the display name, the time, for each of the five labels what the
\* last pair with the label says (nothing when there is none), and the
\* number of the last seeding element that has one.
DocumentSnapshot(doc, owner, now) ==
    [Owner |-> owner,
     Timestamp |-> now,
     Rank |-> IF Labelled(doc, LabelRank) = {} THEN 0
              ELSE Atoi(TrimSuffix(LastLabelled(doc, LabelRank), << "." >>)).n,
     Upload |-> IF Labelled(doc, LabelUpload) = {} THEN << >>
                ELSE LastLabelled(doc, LabelUpload),
     CurrentUpload |-> IF Labelled(doc, LabelCurrentUpload) = {} THEN << >>
                       ELSE LastLabelled(doc, LabelCurrentUpload),
     CurrentDownload |-> IF Labelled(doc, LabelCurrentDownload) = {} THEN << >>
                         ELSE LastLabelled(doc, LabelCurrentDownload),
     Points |-> IF Labelled(doc, LabelPoints) = {} THEN 0
                ELSE Atoi(RemoveAll(LastLabelled(doc, LabelPoints), " ")).n,
     SeedingCount |->
        IF Counted(doc) = {} THEN 0
        ELSE LET k == CHOOSE i \in Counted(doc) : \A m \in Counted(doc) : i >= m
             IN  IntValue(StripZeros(FirstGroup(doc.heads[k])), FALSE)]

\* The answers of the remote site that carry a page: status 200 and a body
\* that parses.
ParsedResponses ==
    {resp \in TestResponses \cup RepeatResponses :
        ~resp.neterr /\ resp.status = StatusOK /\ ~resp.readerr}

\* C32 as stated: the profile fetchProfile returns for a page and an
\* account is the one snapshot of that page and account, whatever the time
\* of the extraction: an extraction at any other time equals it in every
\* field.
C32_SameDocumentSameSnapshot ==
    [][pc = "inflight" =>
          \A resp \in ParsedResponses, now \in 1..MaxTime, other \in 1..MaxTime :
             FetchReturn(resp, now) =>
                /\ pc' = "log"
                /\ profile' = DocumentSnapshot(resp.doc, cycleUsers[idx].DisplayName,
                                               other)]_vars

\* C32, amended: every extraction of a page for an account, in whatever
\* state of the cycle and of the store it runs, succeeds and returns the
\* snapshot that the page, the account and the time of the extraction
\* determine, and the time determines the timestamp only. Two extractions
\* of the same document for the same account are therefore equal in every
\* field but the timestamp, and the timestamp of each is the time at which
\* it ran.
C32_SameDocumentSameFields ==
    [][pc = "inflight" =>
          \A resp \in ParsedResponses, now \in 1..MaxTime :
             FetchReturn(resp, now) =>
                LET owner == cycleUsers[idx].DisplayName
                IN  /\ pc' = "log"
                    /\ profile' = DocumentSnapshot(resp.doc, owner, now)
                    /\ \A other \in 1..MaxTime :
                          [profile' EXCEPT !.Timestamp = other]
                              = DocumentSnapshot(resp.doc, owner, other)]_vars

\* C32 witness: the store holds the row of an extraction that found a rank
\* or points, and fetchProfile has now returned, at time 2, the profile of
\* a page for the second account that sets neither: both are 0 in it, and
\* the extraction of the page at time 1 differs from it in the timestamp
\* only.
C32_Witness ==
    /\ pc = "log"
    /\ idx = 2
    /\ history # << >>
    /\ history[1].rank + history[1].points > 0
    /\ profile.Timestamp = 2
    /\ profile.Rank = 0 /\ profile.Points = 0
    /\ \E d \in TestDocs :
          /\ profile = DocumentSnapshot(d, cycleUsers[idx].DisplayName, 2)
          /\ DocumentSnapshot(d, cycleUsers[idx].DisplayName, 1) # profile
          /\ DocumentSnapshot(d, cycleUsers[idx].DisplayName, 1)
                = [profile EXCEPT !.Timestamp = 1]


\* C33: initializeDatabase leaves every row of users and profile_history
\* as it found it, whether or not it succeeds, and on a store that already
\* holds accounts and snapshots it succeeds whenever the file can be
\* opened (dbOk), as it does on an empty one.
C33_SchemaCreationIdempotent ==
    [][\A dbOk \in BOOLEAN :
          InitializeDatabase(dbOk) =>
              /\ users' = users
              /\ history' = history
              /\ dbOk => (mainPc' = "flags" /\ dbOpen')]_vars

\* C33 witness: the program was started again on a store that holds an
\* account and a snapshot, and initializeDatabase has just succeeded: both
\* rows are still there.
C33_Witness ==
    /\ mainPc = "flags"
    /\ dbOpen
    /\ users # << >>
    /\ history # << >>
    /\ history[1].user_id = users[1].ID


\* C34: in every state every row that the query of profilesHandler returns
\* for an account, in whatever order it yields its rows, is one of the rows
\* that the query of historyHandler returns for the account's display
\* name, and none of the rows of that history has a greater timestamp.
C34_LatestIsInHistory ==
    \A plan \in QueryPlans :
        LET latest == LatestPerAccount(history, users, plan)
        IN  \A i \in 1..Len(latest) :
                LET rows == HistoryFor(history, users, latest[i].Owner)
                IN  /\ \E j \in 1..Len(rows) : rows[j] = latest[i]
                    /\ \A j \in 1..Len(rows) :
                          rows[j].Timestamp <= latest[i].Timestamp

\* C34 witness: an account has two snapshots of different times; the latest
\* view holds the later one and the history holds both.
C34_Witness ==
    /\ Len(users) >= 1
    /\ Len(history) = 2
    /\ history[1].user_id = users[1].ID
    /\ history[2].user_id = users[1].ID
    /\ history[1].timestamp < history[2].timestamp
    /\ \A plan \in QueryPlans :
          /\ Len(LatestPerAccount(history, users, plan)) = 1
          /\ LatestPerAccount(history, users, plan)[1].Timestamp = history[2].timestamp
    /\ Len(HistoryFor(history, users, users[1].DisplayName)) = 2


\* C35: once the signal has arrived the context is cancelled, and from then
\* on main can return as soon as server.Shutdown does, wherever the fetcher
\* stands: it does not wait for the cycle in progress to end.
C35_ShutdownNotBlockedByFetcher ==
    mainPc = "shutdown" => (ctxDone /\ ENABLED Exit)

\* C35 witness: the process has ended after a signal while the fetcher was
\* waiting for the answer to a request of a cycle.
C35_Witness ==
    /\ mainPc = "exited"
    /\ ctxDone
    /\ pc = "inflight"
    /\ idx < Len(cycleUsers)


\* C36: the list a cycle iterates over is the one getUsers returned when
\* the cycle started (the rows of the table it read) and stays the same
\* until the cycle ends; an account that is in the table but not in that
\* list (it was added after the cycle started) has no log line and no new
\* row in the cycle; at the end of the cycle every account of the list has
\* been fetched once; and the list of the next cycle, read to the end, is
\* again all of the table, the added account included.
C36_CycleUsesListTakenAtStart ==
    /\ [][((pc = "boot" \/ pc = "tickTaken") /\ InCycle') =>
             \E cut \in 1..Len(users) : cycleUsers' = SubSeq(GetUsers(users), 1, cut)]_vars
    /\ [][(StartCycle(TRUE, Len(users)) /\ users # << >>) =>
             cycleUsers' = GetUsers(users)]_vars
    /\ [][(InCycle /\ InCycle') => cycleUsers' = cycleUsers]_vars
    /\ [](InCycle =>
            \A i \in 1..Len(users) :
                (\A k \in 1..Len(cycleUsers) : cycleUsers[k] # users[i]) =>
                    /\ \A j \in 1..Len(cycleLog) :
                          cycleLog[j].name # users[i].DisplayName
                    /\ \A k \in (cycleBase + 1)..Len(history) :
                          history[k].user_id # users[i].ID)
    /\ [](pc = "cycleEnd" =>
            \A i \in 1..Len(cycleUsers) : Cardinality(LinesOf(i)) = 1)

\* C36 witness: a cycle that started with one account has ended with one
\* fetch, and the table holds a second account, added while it ran.
C36_Witness ==
    /\ pc = "cycleEnd"
    /\ Len(cycleUsers) = 1
    /\ Len(users) = 2
    /\ users[1] = cycleUsers[1]
    /\ Len(cycleLog) = 1
    /\ cycleLog[1].name = users[1].DisplayName


\* C37: from the request of a fetch to the insert of its profile the loop
\* holds the same user of its list (the one whose ProfileID made the URL of
\* the request); the row an insert appends has the id of that user as
\* user_id and the profile inserted has its display name as owner; and the
\* only account of the table with that id is that user.
C37_RowUnderFetchedAccount ==
    /\ [][((pc = "fetch" \/ pc = "inflight" \/ pc = "log")
            /\ (pc' = "inflight" \/ pc' = "log" \/ pc' = "sleep")) =>
             (idx' = idx /\ cycleUsers' = cycleUsers)]_vars
    /\ [][\A dbOk \in BOOLEAN :
            (LogToDB(dbOk) /\ history' # history) =>
                LET row == history'[Len(history')]
                    user == cycleUsers[idx]
                IN  /\ history' = Append(history, row)
                    /\ row.user_id = user.ID
                    /\ profile.Owner = user.DisplayName
                    /\ \A i \in 1..Len(users) :
                          (users[i].ID = row.user_id
                             \/ users[i].DisplayName = profile.Owner) =>
                                users[i] = user]_vars

\* C37 witness: the profile fetched for the second user of a list of two
\* has been inserted: the last row has the id of that user.
C37_Witness ==
    /\ pc = "sleep"
    /\ idx = 2
    /\ Len(cycleUsers) = 2
    /\ Len(history) > cycleBase
    /\ history[Len(history)].user_id = cycleUsers[2].ID
    /\ cycleLog[Len(cycleLog)] = [name |-> cycleUsers[2].DisplayName,
                                  what |-> "logged successfully"]


\* C38: the profile returned for a page on which a label of the switch
\* occurs twice, or which has two seeding elements, is the profile of the
\* page with the last occurrence alone; and when the last occurrence of the
\* rank or points label has a value that does not convert, the field is 0.
C38_LastOccurrenceWins ==
    [][\A resp \in RepeatResponses, now \in 1..MaxTime :
          FetchReturn(resp, now) =>
              LET doc == resp.doc
                  owner == cycleUsers[idx].DisplayName
              IN  /\ Len(doc.pairs) = 2 =>
                        /\ profile' = Extract([doc EXCEPT !.pairs = << doc.pairs[2] >>],
                                              owner, now)
                        /\ (/\ doc.pairs[2].label = LabelRank
                            /\ Atoi(TrimSuffix(doc.pairs[2].value, << "." >>)).err # "nil")
                              => profile'.Rank = 0
                        /\ (/\ doc.pairs[2].label = LabelPoints
                            /\ Atoi(RemoveAll(doc.pairs[2].value, " ")).err # "nil")
                              => profile'.Points = 0
                  /\ Len(doc.heads) = 2 =>
                        profile' = Extract([doc EXCEPT !.heads = << doc.heads[2] >>],
                                           owner, now)]_vars

====
